---------------------------- MODULE Spec2Model ----------------------------
(***************************************************************************)
(* A model of the deterministic computation and matching layer of the      *)
(* cycling trip planner: the fuzzy route resolver (data/mock_data.py),     *)
(* the accommodation schedule calculator, the route tool and the budget    *)
(* estimator (tools/*.py).                                                 *)
(*                                                                         *)
(* Python values are modelled as follows.                                  *)
(*   - a str is a sequence of one-character strings, so that lower(),      *)
(*     strip(), the regular expressions and the similarity ratio are       *)
(*     computed character by character;                                    *)
(*   - None is the record None, an optional value v is Some(v);            *)
(*   - a float is an exact rational [n |-> numerator, d |-> denominator]   *)
(*     in lowest terms (d > 0) in the tools, whose amounts are compared as *)
(*     they are computed; the currency conversions on their own are also  *)
(*     modelled on IEEE doubles, with the rounding of each operation;      *)
(*   - a tool's return value is [type |-> "str", value |-> ...] for a      *)
(*     plain string and [type |-> "dict", value |-> ...] for a mapping.    *)
(***************************************************************************)
EXTENDS Integers, Sequences, FiniteSets, TLC

VARIABLES
    routesFile,          \* contents of mock_routes.json ("routes" list)
    accommodationsFile,  \* contents of mock_accommodations.json
    visaFile,            \* contents of the visa rules collection
    weatherFile,         \* contents of mock_weather.json ("weather" list)
    elevationsFile,      \* contents of the elevations collection
    pc,                  \* "idle": no invocation pending; "returned": a tool returned
    call,                \* the invocation that produced result (op and arguments)
    result               \* the value the tool returned

vars == <<routesFile, accommodationsFile, visaFile, weatherFile, elevationsFile,
          pc, call, result>>

files == <<routesFile, accommodationsFile, visaFile, weatherFile, elevationsFile>>

-----------------------------------------------------------------------------
(* Python values *)

None == [some |-> FALSE]

Some(v) == [some |-> TRUE, val |-> v]

StrResult(parts) == [type |-> "str", value |-> parts]

DictResult(d) == [type |-> "dict", value |-> d]

Reported(exception) == StrResult(<<"Error: ", exception>>)

\* the tool raised: the exception is logged and re-raised to the caller
Raised(exception) == [type |-> "raise", value |-> exception]

NoCall == [op |-> "none"]

\* whether the record read from a dataset file holds null in the field: the
\* model's record then has no such field (every field a record of the files
\* lacks altogether is given its .get default when the record is built)
is_null(record, field) == field \notin DOMAIN record

NoResult == [type |-> "none"]

SeqToSet(s) == {s[i] : i \in 1..Len(s)}

-----------------------------------------------------------------------------
(* str methods *)

UpperLetters ==
    <<"A", "B", "C", "D", "E", "F", "G", "H", "I", "J", "K", "L", "M",
      "N", "O", "P", "Q", "R", "S", "T", "U", "V", "W", "X", "Y", "Z">>

LowerLetters ==
    <<"a", "b", "c", "d", "e", "f", "g", "h", "i", "j", "k", "l", "m",
      "n", "o", "p", "q", "r", "s", "t", "u", "v", "w", "x", "y", "z">>

Whitespace == {" ", "\t", "\n"}

Digits == <<"0", "1", "2", "3", "4", "5", "6", "7", "8", "9">>

IsDigit(c) == \E i \in 1..Len(Digits) : Digits[i] = c

DigitValue(c) == (CHOOSE i \in 1..Len(Digits) : Digits[i] = c) - 1

\* the lower-case letter of each upper-case letter
LowerOf ==
    [c \in SeqToSet(UpperLetters) |->
        LowerLetters[CHOOSE i \in 1..Len(UpperLetters) : UpperLetters[i] = c]]

LowerChar(c) == IF c \in DOMAIN LowerOf THEN LowerOf[c] ELSE c

\* str.lower()
Lower(s) == [i \in 1..Len(s) |-> LowerChar(s[i])]

RECURSIVE LStrip(_)
LStrip(s) ==
    IF s # <<>> /\ Head(s) \in Whitespace THEN LStrip(Tail(s)) ELSE s

RECURSIVE RStrip(_)
RStrip(s) ==
    IF s # <<>> /\ s[Len(s)] \in Whitespace
    THEN RStrip(SubSeq(s, 1, Len(s) - 1))
    ELSE s

\* str.strip()
Strip(s) == RStrip(LStrip(s))

\* int(digits) for a non-empty run of decimal digits
RECURSIVE ParseInt(_)
ParseInt(ds) ==
    IF ds = <<>> THEN 0
    ELSE 10 * ParseInt(SubSeq(ds, 1, Len(ds) - 1)) + DigitValue(ds[Len(ds)])

\* the upper-case letter of each lower-case letter
UpperOf ==
    [c \in SeqToSet(LowerLetters) |->
        UpperLetters[CHOOSE i \in 1..Len(LowerLetters) : LowerLetters[i] = c]]

UpperChar(c) == IF c \in DOMAIN UpperOf THEN UpperOf[c] ELSE c

\* str.capitalize()
Capitalize(s) ==
    [i \in 1..Len(s) |-> IF i = 1 THEN UpperChar(s[i]) ELSE LowerChar(s[i])]

\* str(n) for 0 <= n <= 99
DecimalStr(n) ==
    IF n < 10 THEN <<Digits[n + 1]>>
    ELSE <<Digits[(n \div 10) + 1], Digits[(n % 10) + 1]>>

-----------------------------------------------------------------------------
(* The regular expressions of parse_pattern *)

\* whether the literal lit occurs in s at position i
MatchLit(s, i, lit) ==
    /\ i + Len(lit) - 1 <= Len(s)
    /\ \A k \in 1..Len(lit) : s[i + k - 1] = lit[k]

\* the first position >= i of s that holds no whitespace (Len(s)+1 if none)
RECURSIVE SkipSpace(_, _)
SkipSpace(s, i) ==
    IF i <= Len(s) /\ s[i] \in Whitespace THEN SkipSpace(s, i + 1) ELSE i

\* the first position >= i of s that holds no digit (Len(s)+1 if none)
RECURSIVE SkipDigits(_, _)
SkipDigits(s, i) ==
    IF i <= Len(s) /\ IsDigit(s[i]) THEN SkipDigits(s, i + 1) ELSE i

L_every == <<"e", "v", "e", "r", "y">>

L_night == <<"n", "i", "g", "h", "t">>

OrdinalSuffixes == {<<"t", "h">>, <<"r", "d">>, <<"s", "t">>, <<"n", "d">>}

\* every\s+(\d+)(?:th|rd|st|nd)?\s+night  anchored at position i of s:
\* Some(group 1) or None.  \s+ and \d+ are greedy and what follows each
\* cannot start with a character of its class, so each takes its whole run;
\* the optional suffix is tried first, then skipped.
OrdinalMatchAt(s, i) ==
    LET j  == i + Len(L_every)
        d0 == SkipSpace(s, j)
        d1 == SkipDigits(s, d0)
        Rest(k) == LET n == SkipSpace(s, k)
                   IN  n > k /\ MatchLit(s, n, L_night)
    IN  IF /\ MatchLit(s, i, L_every)
           /\ d0 > j
           /\ d1 > d0
           /\ \/ \E suf \in OrdinalSuffixes :
                     MatchLit(s, d1, suf) /\ Rest(d1 + Len(suf))
              \/ Rest(d1)
        THEN Some(SubSeq(s, d0, d1 - 1))
        ELSE None

\* every\s+(\d+)\s+nights?  anchored at position i of s
PlainMatchAt(s, i) ==
    LET j  == i + Len(L_every)
        d0 == SkipSpace(s, j)
        d1 == SkipDigits(s, d0)
        n  == SkipSpace(s, d1)
    IN  IF /\ MatchLit(s, i, L_every)
           /\ d0 > j
           /\ d1 > d0
           /\ n > d1
           /\ MatchLit(s, n, L_night)
        THEN Some(SubSeq(s, d0, d1 - 1))
        ELSE None

\* re.search: the match at the leftmost position that has one
ReSearch(MatchAt(_, _), s) ==
    LET hits == {i \in 1..Len(s) : MatchAt(s, i) # None}
    IN  IF hits = {} THEN None
        ELSE MatchAt(s, CHOOSE i \in hits : \A k \in hits : i <= k)

parse_pattern(pattern) ==
    LET m1 == ReSearch(OrdinalMatchAt, Lower(pattern))
        m2 == ReSearch(PlainMatchAt, Lower(pattern))
    IN  IF m1 # None THEN Some(ParseInt(m1.val))
        ELSE IF m2 # None THEN Some(ParseInt(m2.val))
        ELSE None

-----------------------------------------------------------------------------
(* calculate_accommodation_schedule *)

S_camping == <<"c", "a", "m", "p", "i", "n", "g">>

S_hostel == <<"h", "o", "s", "t", "e", "l">>

S_hotel == <<"h", "o", "t", "e", "l">>

\* list(range(start, stop, step)) for step > 0
RECURSIVE Range(_, _, _)
Range(start, stop, step) ==
    IF start >= stop THEN <<>>
    ELSE <<start>> \o Range(start + step, stop, step)

special_nights_from_one(period, total_nights) ==
    LET Keep(night) == night <= total_nights
    IN  SelectSeq(Range(1, total_nights + 1, period), Keep)

\* [night for night in range(period, total_nights + 1, period)
\*  if night <= total_nights]
special_nights_of(period, total_nights) ==
    LET Keep(night) == night <= total_nights
    IN  SelectSeq(Range(period, total_nights + 1, period), Keep)

schedule_from_zero(total_nights, special_nights, accommodation_type, default_type) ==
    [night \in 0..(total_nights - 1) |->
        IF night \in SeqToSet(special_nights) THEN accommodation_type
        ELSE default_type]

\* schedule[night] for night in range(1, total_nights + 1)
schedule_of(total_nights, special_nights, accommodation_type, default_type) ==
    [night \in 1..total_nights |->
        IF night \in SeqToSet(special_nights) THEN accommodation_type
        ELSE default_type]

schedule_input_error_no_total_check(period, total_nights) ==
    IF period = None
    THEN Some(<<"Could not parse pattern">>)
    ELSE IF period.val <= 0
    THEN Some(<<"Period must be positive, got", period.val>>)
    ELSE None

\* the early returns of lines 105-121: Some(error message) or None
schedule_input_error(period, total_nights) ==
    IF period = None
    THEN Some(<<"Could not parse pattern">>)
    ELSE IF period.val <= 0
    THEN Some(<<"Period must be positive, got", period.val>>)
    ELSE IF total_nights <= 0
    THEN Some(<<"Total nights must be positive, got", total_nights>>)
    ELSE None

\* default_type_arg is None when the caller omits default_type
calculate_accommodation_schedule(total_nights, preference_pattern, accommodation_type, default_type_arg) ==
    LET default_type == IF default_type_arg = None THEN S_camping
                        ELSE default_type_arg.val
        period == parse_pattern(preference_pattern)
        error  == schedule_input_error(period, total_nights)
        special_nights == special_nights_of(period.val, total_nights)
        schedule == schedule_of(total_nights, special_nights,
                                accommodation_type, default_type)
        pattern_interpretation ==
            IF special_nights # <<>>
            THEN <<"Using", accommodation_type, "on nights", special_nights,
                   "every", period.val, "th night", default_type,
                   "on all other nights">>
            ELSE <<"Pattern every", period.val,
                   "th night results in no special nights for a",
                   total_nights, "-night trip. Using", default_type,
                   "for all nights">>
    IN  IF error # None
        THEN DictResult([error |-> error.val])
        ELSE DictResult([total_nights |-> total_nights,
                         schedule |-> schedule,
                         special_nights |-> special_nights,
                         pattern_interpretation |-> pattern_interpretation])

-----------------------------------------------------------------------------
(* Exact rationals for Python floats *)

RECURSIVE GCD(_, _)
GCD(a, b) == IF b = 0 THEN a ELSE GCD(b, a % b)

Abs(x) == IF x < 0 THEN -x ELSE x

\* the rational n/d (d # 0) in lowest terms with a positive denominator
Rat(n, d) ==
    LET g == GCD(Abs(n), Abs(d))
        s == IF d < 0 THEN -1 ELSE 1
    IN  [n |-> s * (n \div g), d |-> s * (d \div g)]

RInt(k) == [n |-> k, d |-> 1]

RAdd(a, b) ==
    LET l == (a.d \div GCD(a.d, b.d)) * b.d
    IN  Rat(a.n * (l \div a.d) + b.n * (l \div b.d), l)

RMul(a, b) ==
    LET g1 == GCD(Abs(a.n), b.d)
        g2 == GCD(Abs(b.n), a.d)
    IN  Rat((a.n \div g1) * (b.n \div g2), (a.d \div g2) * (b.d \div g1))

\* a / b for b # 0
RDiv(a, b) == RMul(a, Rat(b.d, b.n))

RLt(a, b) == a.n * b.d < b.n * a.d

RLe(a, b) == a.n * b.d <= b.n * a.d

\* math.ceil(x)
RCeil(x) == -((-x.n) \div x.d)

-----------------------------------------------------------------------------
(* rapidfuzz.fuzz.ratio and the fuzzy route resolver (data/mock_data.py) *)

SIMILARITY_THRESHOLD == 70

Max(a, b) == IF a >= b THEN a ELSE b

\* one row of the longest-common-subsequence table: row[j + 1] is the
\* length of a longest common subsequence of a[1..i] and b[1..j]
RECURSIVE LcsRow(_, _, _, _, _)
LcsRow(a, b, i, prev, acc) ==
    LET j == Len(acc)
    IN  IF j > Len(b) THEN acc
        ELSE LcsRow(a, b, i, prev,
                    Append(acc, IF a[i] = b[j]
                                THEN prev[j] + 1
                                ELSE Max(prev[j + 1], acc[j])))

RECURSIVE LcsRows(_, _, _, _)
LcsRows(a, b, i, prev) ==
    IF i > Len(a) THEN prev
    ELSE LcsRows(a, b, i + 1, LcsRow(a, b, i, prev, <<0>>))

LCS(a, b) == LcsRows(a, b, 1, [j \in 1..(Len(b) + 1) |-> 0])[Len(b) + 1]

\* fuzz.ratio(a, b): the normalized Indel similarity on a 0-100 scale,
\* 100 * (1 - (len(a) + len(b) - 2*LCS) / (len(a) + len(b))); 100 for two
\* empty strings
fuzz_ratio(a, b) ==
    IF Len(a) + Len(b) = 0 THEN RInt(100)
    ELSE Rat(200 * LCS(a, b), Len(a) + Len(b))

\* the label stripped but left in its letter case
normalize_location_keeping_case(location) == Strip(location)

\* location.lower().strip()
normalize_location(location) == Strip(Lower(location))

\* start_similarity >= SIMILARITY_THRESHOLD and end_similarity >= SIMILARITY_THRESHOLD
route_qualifies(start_similarity, end_similarity) ==
    /\ RLe(RInt(SIMILARITY_THRESHOLD), start_similarity)
    /\ RLe(RInt(SIMILARITY_THRESHOLD), end_similarity)

route_improves_or_ties(avg_similarity, best_score) == RLe(best_score, avg_similarity)

route_first_qualifying(avg_similarity, best_score) == best_score = RInt(0)

\* avg_similarity > best_score
route_improves(avg_similarity, best_score) == RLt(best_score, avg_similarity)

\* lines 141-151 for routes[i]: best_match (as its position in routes, 0 for
\* None) and best_score after the route was looked at
best_route_after(best, i, start_similarity, end_similarity, avg_similarity) ==
    IF /\ route_qualifies(start_similarity, end_similarity)
       /\ route_improves(avg_similarity, best.score)
    THEN [index |-> i, score |-> avg_similarity]
    ELSE best

\* (start_similarity + end_similarity) / 2
avg_similarity_of(start_similarity, end_similarity) ==
    RDiv(RAdd(start_similarity, end_similarity), RInt(2))

\* one pass of the loop of find_route_fuzzy, over routes[i]
route_step(normalized_start, normalized_end, route, i, best) ==
    LET start_similarity ==
            fuzz_ratio(normalized_start, normalize_location(route.start_point))
        end_similarity ==
            fuzz_ratio(normalized_end, normalize_location(route.end_point))
    IN  best_route_after(best, i, start_similarity, end_similarity,
                         avg_similarity_of(start_similarity, end_similarity))

\* the loop of find_route_fuzzy from routes[i] on
RECURSIVE find_route_loop(_, _, _, _, _)
find_route_loop(normalized_start, normalized_end, routes, i, best) ==
    IF i > Len(routes) THEN best
    ELSE find_route_loop(normalized_start, normalized_end, routes, i + 1,
                         route_step(normalized_start, normalized_end, routes[i], i, best))

\* the position in routes of the route find_route_fuzzy returns, 0 for None
find_route_fuzzy_index(start_point, end_point, routes) ==
    find_route_loop(normalize_location(start_point), normalize_location(end_point),
                    routes, 1, [index |-> 0, score |-> RInt(0)]).index

\* best_match as an optional record
entry_at(entries, i) == IF i = 0 THEN None ELSE Some(entries[i])

find_route_fuzzy(start_point, end_point, routes) ==
    entry_at(routes, find_route_fuzzy_index(start_point, end_point, routes))

load_routes_file_not_found == <<>>

\* load_routes(): the "routes" list of the file, read at every call
load_routes == routesFile

-----------------------------------------------------------------------------
(* get_route *)

estimated_days_floor(distance_km, daily_average_km) ==
    distance_km \div daily_average_km

\* math.ceil(distance_km / daily_average_km)
estimated_days_of(distance_km, daily_average_km) ==
    RCeil(RDiv(RInt(distance_km), RInt(daily_average_km)))

\* the not-found report as a mapping with an "error" key instead of a string
NoRouteFoundAsMapping(start_point, end_point) ==
    DictResult([error |-> <<"No route found from", start_point, "to", end_point>>])

NoRouteFound(start_point, end_point) ==
    StrResult(<<"No route found from", start_point, "to", end_point>>)

\* lines 70-107: the structured output for the route found
route_output(route, daily_average_km) ==
    DictResult([start_point |-> route.start_point,
                end_point |-> route.end_point,
                distance_km |-> route.distance_km,
                estimated_days |->
                    estimated_days_of(route.distance_km, daily_average_km),
                waypoints |-> route.waypoints])

route_or_not_found(found, start_point, end_point, daily_average_km) ==
    IF found = None
    THEN NoRouteFound(start_point, end_point)
    ELSE route_output(found.val, daily_average_km)

get_route(start_point, end_point, daily_average_km) ==
    route_or_not_found(find_route_fuzzy(start_point, end_point, load_routes),
                       start_point, end_point, daily_average_km)

-----------------------------------------------------------------------------
(* find_accommodations (data/mock_data.py) *)

S_all == <<"a", "l", "l">>

S_mixed == <<"m", "i", "x", "e", "d">>

S_camp == <<"c", "a", "m", "p">>

S_hostels == <<"h", "o", "s", "t", "e", "l", "s">>

S_hotels == <<"h", "o", "t", "e", "l", "s">>

\* load_accommodations(): the "accommodations" list of the file, read at every call
load_accommodations == accommodationsFile

\* the type looked up without type_mapping
filter_type_unmapped(normalized_type) == normalized_type

\* type_mapping.get(normalized_type, "all")
filter_type_of(normalized_type) ==
    IF normalized_type \in {S_camping, S_camp} THEN S_camping
    ELSE IF normalized_type \in {S_hostel, S_hostels} THEN S_hostel
    ELSE IF normalized_type \in {S_hotel, S_hotels} THEN S_hotel
    ELSE S_all

\* whether the loop of find_accommodations appends this accommodation
accommodation_matches(accommodation, normalized_location, filter_type) ==
    LET accommodation_location == normalize_location(accommodation.location)
        accommodation_type_value == Lower(accommodation.type)
        location_similarity == fuzz_ratio(normalized_location, accommodation_location)
    IN  /\ RLe(RInt(SIMILARITY_THRESHOLD), location_similarity)
        /\ (filter_type = S_all \/ accommodation_type_value = filter_type)

\* location_similarities[location_key] after the loop: the largest similarity
\* stored for the key (0 when the key was never stored)
location_similarity_of(matching, normalized_location, location_key) ==
    LET sims == {fuzz_ratio(normalized_location, normalize_location(matching[i].location)) :
                    i \in {k \in 1..Len(matching) :
                              normalize_location(matching[k].location) = location_key}}
    IN  IF sims = {} THEN RInt(0)
        ELSE CHOOSE s \in sims : \A u \in sims : RLe(u, s)

\* the sort key without the price
sort_key_less_by_similarity(a, b) == RLt(b.similarity, a.similarity)

\* key(a) < key(b) for the sort key (-similarity, price_per_night)
sort_key_less(a, b) ==
    \/ RLt(b.similarity, a.similarity)
    \/ (a.similarity = b.similarity /\ a.price < b.price)

\* list.sort(key=...) is stable: x goes after every element whose key is not
\* greater than its own
RECURSIVE insert_sorted(_, _)
insert_sorted(x, sorted) ==
    IF sorted = <<>> THEN <<x>>
    ELSE IF sort_key_less(x, Head(sorted))
         THEN <<x>> \o sorted
         ELSE <<Head(sorted)>> \o insert_sorted(x, Tail(sorted))

RECURSIVE sort_keyed(_, _, _)
sort_keyed(keyed, i, sorted) ==
    IF i > Len(keyed) THEN sorted
    ELSE sort_keyed(keyed, i + 1, insert_sorted(keyed[i], sorted))

\* each match with the key the sort computes for it
keyed_matches(matching_accommodations, normalized_location) ==
    [i \in 1..Len(matching_accommodations) |->
        [accommodation |-> matching_accommodations[i],
         similarity |->
             location_similarity_of(
                 matching_accommodations, normalized_location,
                 normalize_location(matching_accommodations[i].location)),
         price |-> matching_accommodations[i].price_per_night]]

unkeyed(sorted) == [i \in 1..Len(sorted) |-> sorted[i].accommodation]

\* lines 213-228: the accommodations the loop appends, in order
matching_accommodations_of(accommodations, normalized_location, filter_type) ==
    LET Matches(accommodation) ==
            accommodation_matches(accommodation, normalized_location, filter_type)
    IN  SelectSeq(accommodations, Matches)

find_accommodations(location, accommodation_type, accommodations) ==
    unkeyed(sort_keyed(
        keyed_matches(
            matching_accommodations_of(accommodations, normalize_location(location),
                                       filter_type_of(Strip(Lower(accommodation_type)))),
            normalize_location(location)),
        1, <<>>))

-----------------------------------------------------------------------------
(* Visa rules: find_visa_requirements is imported from data/mock_data.py by  *)
(* the tools but its text is not part of the sources at hand.  It is         *)
(* modelled as the resolver of the specification: both fields at least       *)
(* SIMILARITY_THRESHOLD similar, the highest mean wins, first seen on ties.  *)

find_visa_requirements(destination, nationality, rules) ==
    entry_at(rules,
             find_route_fuzzy_index(
                 destination, nationality,
                 [i \in 1..Len(rules) |->
                     [start_point |-> rules[i].destination,
                      end_point |-> rules[i].nationality]]))

-----------------------------------------------------------------------------
(* constants.py *)

\* CURRENCY_RATES: 1.0, 1.1, 0.85, 7.45 and 25.0 units per EUR
CURRENCY_RATES ==
    [c \in {"EUR", "USD", "GBP", "DKK", "CZK"} |->
        CASE c = "EUR" -> Rat(1, 1)
          [] c = "USD" -> Rat(11, 10)
          [] c = "GBP" -> Rat(17, 20)
          [] c = "DKK" -> Rat(149, 20)
          [] c = "CZK" -> Rat(25, 1)]

DAILY_FOOD_COST == 40

BIKE_MAINTENANCE_PER_KM == Rat(1, 10)

MISCELLANEOUS_PER_DAY == 15

DEFAULT_ACCOMMODATION_PRICE == 25

CAMPING_PRICE == 15

HOSTEL_PRICE == 25

HOTEL_PRICE == 80

-----------------------------------------------------------------------------
(* estimate_budget (tools/estimate_budget.py) *)

convert_to_eur(amount, currency) ==
    IF currency = "EUR" THEN amount
    ELSE IF currency \in DOMAIN CURRENCY_RATES
    THEN RDiv(amount, CURRENCY_RATES[currency])
    ELSE amount

convert_eur_to_usd(amount_eur) == RMul(amount_eur, CURRENCY_RATES["USD"])

\* bool(accommodation_preference): neither None nor the empty string
Truthy(s) == s # None /\ s.val # <<>>

\* the first accommodation of the list instead of the cheapest
first_listed(accommodations) == accommodations[1]

\* min(accommodations, key=price_per_night): the first of the cheapest
cheapest_of(accommodations) ==
    LET i == CHOOSE k \in 1..Len(accommodations) :
                 /\ \A m \in 1..Len(accommodations) :
                        accommodations[k].price_per_night
                            <= accommodations[m].price_per_night
                 /\ \A m \in 1..(k - 1) :
                        accommodations[m].price_per_night
                            > accommodations[k].price_per_night
    IN  accommodations[i]

\* Some([price, currency]) or None
get_accommodation_price(accommodations, accommodation_preference) ==
    LET pref == IF Truthy(accommodation_preference)
                THEN Strip(Lower(accommodation_preference.val))
                ELSE S_mixed
        OfType(acc) == Lower(acc.type) = pref
        filtered == SelectSeq(accommodations, OfType)
        Priced(acc) == Some([price |-> acc.price_per_night, currency |-> acc.currency])
    IN  IF accommodations = <<>> THEN None
        ELSE IF pref = S_mixed \/ pref = S_all \/ ~Truthy(accommodation_preference)
        THEN Priced(cheapest_of(accommodations))
        ELSE IF filtered = <<>>
        THEN Priced(cheapest_of(accommodations))
        ELSE Priced(cheapest_of(filtered))

\* the default estimate whatever the preference
estimated_price_default(accommodation_preference) == DEFAULT_ACCOMMODATION_PRICE

\* the per-type estimate of lines 272-280 and 296-304
estimated_price_of(accommodation_preference) ==
    IF Truthy(accommodation_preference)
    THEN LET pref == Lower(accommodation_preference.val)
         IN  IF pref = S_camping THEN CAMPING_PRICE
             ELSE IF pref = S_hostel THEN HOSTEL_PRICE
             ELSE IF pref = S_hotel THEN HOTEL_PRICE
             ELSE DEFAULT_ACCOMMODATION_PRICE
    ELSE DEFAULT_ACCOMMODATION_PRICE

nights_per_stop_unclamped(estimated_days, num_stops) ==
    IF num_stops > 0 THEN estimated_days \div num_stops ELSE 0

\* max(1, estimated_days // num_stops) if num_stops > 0 else 0
nights_per_stop_of(estimated_days, num_stops) ==
    IF num_stops > 0 THEN Max(1, estimated_days \div num_stops) ELSE 0

nights_at_even(i, num_stops, nights_per_stop, estimated_days) == nights_per_stop

\* nights of the stop with Python index i (lines 251-253)
nights_at(i, num_stops, nights_per_stop, estimated_days) ==
    IF i < num_stops - 1 THEN nights_per_stop
    ELSE estimated_days - (nights_per_stop * (num_stops - 1))

\* accommodation_by_currency[currency] = amount
add_by_currency_overwriting(by_currency, currency, amount) ==
    IF currency \in DOMAIN by_currency
    THEN [by_currency EXCEPT ![currency] = amount]
    ELSE by_currency @@ (currency :> amount)

\* accommodation_by_currency[currency] += amount (a defaultdict(float))
add_by_currency(by_currency, currency, amount) ==
    IF currency \in DOMAIN by_currency
    THEN [by_currency EXCEPT ![currency] = RAdd(@, amount)]
    ELSE by_currency @@ (currency :> amount)

BreakdownItem(waypoint_name, price, currency, nights, total_cost, is_estimated) ==
    [waypoint_name |-> waypoint_name, price_per_night |-> price,
     currency |-> currency, nights |-> nights, total_cost |-> total_cost,
     is_estimated |-> is_estimated]

EmptyAccumulator == [total_eur |-> RInt(0), items |-> <<>>, by_currency |-> <<>>]

\* lines 255-269 and 281-293: the totals with one more line item
with_item(acc, item, total_cost_eur) ==
    [total_eur |-> RAdd(acc.total_eur, total_cost_eur),
     items |-> Append(acc.items, item),
     by_currency |-> add_by_currency(acc.by_currency, item.currency, item.total_cost)]

\* lines 256-269: a stop with a known price
priced_stop(acc, waypoint_name, price, currency, nights) ==
    with_item(acc,
              BreakdownItem(waypoint_name, price, currency, nights,
                            RInt(price * nights), FALSE),
              convert_to_eur(RInt(price * nights), currency))

\* lines 271-293: a stop without accommodation data
estimated_stop(acc, waypoint_name, estimated_price, nights) ==
    with_item(acc,
              BreakdownItem(waypoint_name, estimated_price, "EUR", nights,
                            RInt(estimated_price * nights), TRUE),
              RInt(estimated_price * nights))

\* lines 255-293
stop_costs(acc, waypoint_name, acc_price_info, nights, accommodation_preference) ==
    IF acc_price_info # None
    THEN priced_stop(acc, waypoint_name, acc_price_info.val.price,
                     acc_price_info.val.currency, nights)
    ELSE estimated_stop(acc, waypoint_name,
                        estimated_price_of(accommodation_preference), nights)

\* accommodation_preference or "all"
acc_type_of(accommodation_preference) ==
    IF Truthy(accommodation_preference) THEN accommodation_preference.val ELSE S_all

\* lines 240-293 for the waypoint with Python index i; a waypoint without a
\* name is passed over
stop_step(i, waypoint_name, num_stops, estimated_days, accommodation_preference, accommodations, acc) ==
    IF waypoint_name = <<>> THEN acc
    ELSE stop_costs(acc, waypoint_name,
                    get_accommodation_price(
                        find_accommodations(waypoint_name,
                                            acc_type_of(accommodation_preference),
                                            accommodations),
                        accommodation_preference),
                    nights_at(i, num_stops,
                              nights_per_stop_of(estimated_days, num_stops),
                              estimated_days),
                    accommodation_preference)

\* the loop over waypoints[:-1] of lines 239-293 from Python index i on;
\* acc holds accommodation_total_eur, accommodation_breakdown_items and
\* accommodation_by_currency
RECURSIVE stops_loop(_, _, _, _, _, _)
stops_loop(i, waypoints, estimated_days, accommodation_preference, accommodations, acc) ==
    IF i >= Len(waypoints) - 1 THEN acc
    ELSE stops_loop(i + 1, waypoints, estimated_days, accommodation_preference,
                    accommodations,
                    stop_step(i, waypoints[i + 1].name, Len(waypoints) - 1,
                              estimated_days, accommodation_preference,
                              accommodations, acc))

\* lines 233-316: the accommodation part of the budget
accommodation_costs(waypoints, estimated_days, accommodation_preference, accommodations) ==
    IF Len(waypoints) > 1
    THEN stops_loop(0, waypoints, estimated_days, accommodation_preference,
                    accommodations, EmptyAccumulator)
    ELSE [total_eur |-> RInt(estimated_price_of(accommodation_preference) * estimated_days),
          items |-> <<BreakdownItem(
                        <<"Estimated">>, estimated_price_of(accommodation_preference),
                        "EUR", estimated_days,
                        RInt(estimated_price_of(accommodation_preference) * estimated_days),
                        TRUE)>>,
          by_currency |->
              ("EUR" :> RInt(estimated_price_of(accommodation_preference) * estimated_days))]

\* lines 321-339: [cost_usd, cost_eur, info]
free_visa(info) == [cost_usd |-> RInt(0), cost_eur |-> RInt(0), info |-> info]

\* the cost in EUR taken as the cost in USD times the rate
visa_costs_of_multiplied(visa_data) ==
    IF visa_data # None
    THEN IF visa_data.val.cost_usd # None /\ visa_data.val.cost_usd.val > 0
         THEN [cost_usd |-> RInt(visa_data.val.cost_usd.val),
               cost_eur |-> RMul(RInt(visa_data.val.cost_usd.val), CURRENCY_RATES["USD"]),
               info |-> "Visa required"]
         ELSE free_visa("No visa cost (visa not required or free)")
    ELSE free_visa("Visa information not available")

\* lines 326-334 and 339
visa_costs_of(visa_data) ==
    IF visa_data # None
    THEN IF visa_data.val.cost_usd # None /\ visa_data.val.cost_usd.val > 0
         THEN [cost_usd |-> RInt(visa_data.val.cost_usd.val),
               cost_eur |-> RDiv(RInt(visa_data.val.cost_usd.val), CURRENCY_RATES["USD"]),
               info |-> "Visa required"]
         ELSE free_visa("No visa cost (visa not required or free)")
    ELSE free_visa("Visa information not available")

visa_costs(destination, nationality, rules) ==
    IF Truthy(destination) /\ Truthy(nationality)
    THEN visa_costs_of(find_visa_requirements(destination.val, nationality.val, rules))
    ELSE IF Truthy(destination) \/ Truthy(nationality)
    THEN free_visa("Both destination and nationality required for visa cost calculation")
    ELSE free_visa("")

duration_error_if_missing(duration_days, daily_average_km) ==
    duration_days = None /\ daily_average_km = None

\* lines 219-220: no duration_days and no usable daily_average_km
duration_error(duration_days, daily_average_km) ==
    /\ duration_days = None
    /\ (daily_average_km = None \/ daily_average_km.val <= 0)

\* lines 219-226 past the early return: estimated_days
trip_days(duration_days, daily_average_km, distance_km) ==
    IF duration_days = None
    THEN estimated_days_of(distance_km, daily_average_km.val)
    ELSE duration_days.val

\* lines 341-348: other_total_eur and total_eur
other_expenses_of(distance_km, estimated_days) ==
    RAdd(RMul(BIKE_MAINTENANCE_PER_KM, RInt(distance_km)),
         RInt(MISCELLANEOUS_PER_DAY * estimated_days))

\* the total without the visa
total_eur_without_visa(accommodation_total_eur, food_total_eur, visa_total_eur, other_total_eur) ==
    RAdd(RAdd(accommodation_total_eur, food_total_eur), other_total_eur)

total_eur_of(accommodation_total_eur, food_total_eur, visa_total_eur, other_total_eur) ==
    RAdd(RAdd(RAdd(accommodation_total_eur, food_total_eur), visa_total_eur),
         other_total_eur)

\* lines 351-355: the amounts by currency, EUR left out
currency_details_of(by_currency) ==
    [c \in (DOMAIN by_currency) \ {"EUR"} |-> by_currency[c]]

\* lines 358-392
budget_output(start_point, end_point, distance_km, estimated_days, accommodation, visa, total_eur) ==
    DictResult(
        [start_point |-> start_point,
         end_point |-> end_point,
         route_distance_km |-> distance_km,
         estimated_days |-> estimated_days,
         accommodation |-> [total_eur |-> accommodation.total_eur,
                            breakdown |-> accommodation.items,
                            currency_details |->
                                currency_details_of(accommodation.by_currency)],
         food |-> [total_eur |-> RInt(DAILY_FOOD_COST * estimated_days),
                   daily_cost_eur |-> DAILY_FOOD_COST,
                   days |-> estimated_days],
         visa |-> visa,
         other_expenses |->
             [total_eur |-> other_expenses_of(distance_km, estimated_days),
              bike_maintenance_eur |-> RMul(BIKE_MAINTENANCE_PER_KM, RInt(distance_km)),
              distance_km |-> distance_km,
              miscellaneous_eur |-> RInt(MISCELLANEOUS_PER_DAY * estimated_days),
              days |-> estimated_days],
         total_eur |-> total_eur,
         total_usd |-> convert_eur_to_usd(total_eur)])

\* lines 318-392 once the accommodation and visa costs are known
budget_of_costs(start_point, end_point, distance_km, estimated_days, accommodation, visa) ==
    budget_output(start_point, end_point, distance_km, estimated_days, accommodation, visa,
                  total_eur_of(accommodation.total_eur,
                               RInt(DAILY_FOOD_COST * estimated_days),
                               visa.cost_eur,
                               other_expenses_of(distance_km, estimated_days)))

\* lines 228-392 once estimated_days is known
budget_of_days(start_point, end_point, route, estimated_days, accommodation_preference, destination, nationality) ==
    budget_of_costs(start_point, end_point, route.distance_km, estimated_days,
                    accommodation_costs(route.waypoints, estimated_days,
                                        accommodation_preference, load_accommodations),
                    visa_costs(destination, nationality, visaFile))

\* lines 214-392 for the route found
budget_of_route(start_point, end_point, route, duration_days, daily_average_km, accommodation_preference, destination, nationality) ==
    IF duration_error(duration_days, daily_average_km)
    THEN StrResult(<<"Error: Either duration_days or daily_average_km must be provided">>)
    ELSE IF duration_days = None /\ daily_average_km.val = 0
    THEN Raised("ZeroDivisionError")
    ELSE IF is_null(route, "distance_km")
    THEN Raised("TypeError")
    ELSE budget_of_days(start_point, end_point, route,
                        trip_days(duration_days, daily_average_km, route.distance_km),
                        accommodation_preference, destination, nationality)

budget_or_not_found(found, start_point, end_point, duration_days, daily_average_km, accommodation_preference, destination, nationality) ==
    IF found = None
    THEN NoRouteFound(start_point, end_point)
    ELSE budget_of_route(start_point, end_point, found.val, duration_days,
                         daily_average_km, accommodation_preference,
                         destination, nationality)

estimate_budget(start_point, end_point, duration_days, daily_average_km, accommodation_preference, destination, nationality) ==
    budget_or_not_found(find_route_fuzzy(start_point, end_point, load_routes),
                        start_point, end_point, duration_days, daily_average_km,
                        accommodation_preference, destination, nationality)

-----------------------------------------------------------------------------
(* normalize_month, find_weather (data/mock_data.py) and get_weather *)

\* the values of month_names, in calendar order
MonthNames ==
    << <<"J", "a", "n", "u", "a", "r", "y">>,
       <<"F", "e", "b", "r", "u", "a", "r", "y">>,
       <<"M", "a", "r", "c", "h">>,
       <<"A", "p", "r", "i", "l">>,
       <<"M", "a", "y">>,
       <<"J", "u", "n", "e">>,
       <<"J", "u", "l", "y">>,
       <<"A", "u", "g", "u", "s", "t">>,
       <<"S", "e", "p", "t", "e", "m", "b", "e", "r">>,
       <<"O", "c", "t", "o", "b", "e", "r">>,
       <<"N", "o", "v", "e", "m", "b", "e", "r">>,
       <<"D", "e", "c", "e", "m", "b", "e", "r">> >>

\* month_names: lower-case full name -> full name
month_names ==
    [k \in {Lower(MonthNames[i]) : i \in 1..12} |->
        MonthNames[CHOOSE i \in 1..12 : Lower(MonthNames[i]) = k]]

\* month_abbrevs: lower-case three-letter abbreviation -> full name
month_abbrevs ==
    [k \in {SubSeq(Lower(MonthNames[i]), 1, 3) : i \in 1..12} |->
        MonthNames[CHOOSE i \in 1..12 : SubSeq(Lower(MonthNames[i]), 1, 3) = k]]

\* month_numbers: "1" .. "12" -> full name
month_numbers ==
    [k \in {DecimalStr(i) : i \in 1..12} |->
        MonthNames[CHOOSE i \in 1..12 : DecimalStr(i) = k]]

normalize_month(month) ==
    LET month_str == Strip(month)
        month_lower == Lower(month_str)
    IN  IF month_lower \in DOMAIN month_names THEN month_names[month_lower]
        ELSE IF month_lower \in DOMAIN month_abbrevs THEN month_abbrevs[month_lower]
        ELSE IF month_lower \in DOMAIN month_numbers THEN month_numbers[month_lower]
        ELSE IF month_lower \in SeqToSet(MonthNames) THEN Capitalize(month_str)
        ELSE month_str

\* load_weather(): the "weather" list of the file, read at every call
load_weather == weatherFile

\* the month left out of the test
weather_qualifies_by_location(location_similarity, month_matches) ==
    RLe(RInt(SIMILARITY_THRESHOLD), location_similarity)

\* location_similarity >= SIMILARITY_THRESHOLD and month_matches
weather_qualifies(location_similarity, month_matches) ==
    RLe(RInt(SIMILARITY_THRESHOLD), location_similarity) /\ month_matches

\* the loop of find_weather from entry i on; best is the index of best_match
\* (0 for None) with best_score
RECURSIVE find_weather_loop(_, _, _, _, _)
find_weather_loop(normalized_location, normalized_month, weather_data, i, best) ==
    IF i > Len(weather_data) THEN best
    ELSE LET weather_entry == weather_data[i]
             weather_location == normalize_location(weather_entry.location)
             location_similarity == fuzz_ratio(normalized_location, weather_location)
             month_matches == normalize_month(weather_entry.month) = normalized_month
         IN  find_weather_loop(
                 normalized_location, normalized_month, weather_data, i + 1,
                 IF /\ weather_qualifies(location_similarity, month_matches)
                    /\ RLt(best.score, location_similarity)
                 THEN [index |-> i, score |-> location_similarity]
                 ELSE best)

find_weather_index(location, month, weather_data) ==
    find_weather_loop(normalize_location(location), normalize_month(month),
                      weather_data, 1, [index |-> 0, score |-> RInt(0)]).index

find_weather(location, month, weather_data) ==
    LET i == find_weather_index(location, month, weather_data)
    IN  IF i = 0 THEN None ELSE Some(weather_data[i])

NoWeatherFound(location, month) ==
    StrResult(<<"No weather data found for", location, "in", month>>)

get_weather(location, month) ==
    LET found == find_weather(location, month, load_weather)
        weather_data == found.val
    IN  IF found = None
        THEN NoWeatherFound(location, month)
        ELSE DictResult([location |-> location,
                         month |-> month,
                         avg_temperature_c |-> weather_data.avg_temperature_c,
                         rainy_days |-> weather_data.rainy_days,
                         cycling_suitability |-> weather_data.cycling_suitability])

-----------------------------------------------------------------------------
(* find_accommodation (tools/find_accommodation.py) *)

NoAccommodationsFound(location, accommodation_type) ==
    StrResult(<<"No accommodations found near", location,
                IF accommodation_type # S_all THEN <<"type:", accommodation_type>>
                ELSE <<>>>>)

AccommodationItem(acc) ==
    [name |-> acc.name, type |-> acc.type,
     price_per_night |-> acc.price_per_night, currency |-> acc.currency]

find_accommodation(location, accommodation_type) ==
    LET accommodations_data ==
            find_accommodations(location, accommodation_type, load_accommodations)
        accommodation_items ==
            [i \in 1..Len(accommodations_data) |->
                AccommodationItem(accommodations_data[i])]
        type_display ==
            IF accommodation_type # S_all THEN Capitalize(accommodation_type)
            ELSE <<"A", "l", "l", " ", "t", "y", "p", "e", "s">>
    IN  IF accommodations_data = <<>>
        THEN NoAccommodationsFound(location, accommodation_type)
        ELSE DictResult([location |-> location,
                         filter_type |-> type_display,
                         count |-> Len(accommodation_items),
                         accommodations |-> accommodation_items])

-----------------------------------------------------------------------------
(* Elevations: find_elevation is imported from data/mock_data.py by          *)
(* tools/get_elevation_profile.py but its text is not part of the sources at *)
(* hand.  It is modelled as the resolver of the specification over the one   *)
(* required field: the record whose normalized location is at least          *)
(* SIMILARITY_THRESHOLD similar to the normalized query and most similar,    *)
(* the first seen on ties.                                                   *)

load_elevations == elevationsFile

RECURSIVE find_elevation_loop(_, _, _, _)
find_elevation_loop(normalized_location, elevations, i, best) ==
    IF i > Len(elevations) THEN best
    ELSE LET location_similarity ==
                 fuzz_ratio(normalized_location,
                            normalize_location(elevations[i].location))
         IN  find_elevation_loop(
                 normalized_location, elevations, i + 1,
                 IF /\ RLe(RInt(SIMILARITY_THRESHOLD), location_similarity)
                    /\ RLt(best.score, location_similarity)
                 THEN [index |-> i, score |-> location_similarity]
                 ELSE best)

find_elevation(location) ==
    LET elevations == load_elevations
        i == find_elevation_loop(normalize_location(location), elevations, 1,
                                 [index |-> 0, score |-> RInt(0)]).index
    IN  IF i = 0 THEN None ELSE Some(elevations[i])

-----------------------------------------------------------------------------
(* get_elevation_profile (tools/get_elevation_profile.py) *)

S_Easy == <<"E", "a", "s", "y">>

S_Moderate == <<"M", "o", "d", "e", "r", "a", "t", "e">>

S_Hard == <<"H", "a", "r", "d">>

S_VeryHard == <<"V", "e", "r", "y", " ", "H", "a", "r", "d">>

\* the thresholds taken as upper bounds that belong to the lower class
difficulty_rating_inclusive(elevation_gain_per_km) ==
    IF RLe(elevation_gain_per_km, RInt(10)) THEN S_Easy
    ELSE IF RLe(elevation_gain_per_km, RInt(30)) THEN S_Moderate
    ELSE IF RLe(elevation_gain_per_km, RInt(50)) THEN S_Hard
    ELSE S_VeryHard

calculate_difficulty_rating(elevation_gain_per_km) ==
    IF RLt(elevation_gain_per_km, RInt(10)) THEN S_Easy
    ELSE IF RLt(elevation_gain_per_km, RInt(30)) THEN S_Moderate
    ELSE IF RLt(elevation_gain_per_km, RInt(50)) THEN S_Hard
    ELSE S_VeryHard

\* the loop left at the first waypoint without elevation data
RECURSIVE elevation_lookups_first_missing(_, _, _)
elevation_lookups_first_missing(waypoints, i, acc) ==
    IF i > Len(waypoints) \/ acc.missing_elevations # <<>> THEN acc
    ELSE elevation_lookups_first_missing(
             waypoints, i + 1,
             IF find_elevation(waypoints[i].name) # None
             THEN [acc EXCEPT !.waypoint_elevations =
                      Append(@, [name |-> waypoints[i].name,
                                 elevation_m |->
                                     find_elevation(waypoints[i].name).val.elevation_m])]
             ELSE [acc EXCEPT !.missing_elevations = Append(@, waypoints[i].name)])

\* the loop over the waypoints: waypoint_elevations and missing_elevations
RECURSIVE elevation_lookups(_, _, _)
elevation_lookups(waypoints, i, acc) ==
    IF i > Len(waypoints) THEN acc
    ELSE LET waypoint_name == waypoints[i].name
             elevation_data == find_elevation(waypoint_name)
         IN  elevation_lookups(
                 waypoints, i + 1,
                 IF elevation_data # None
                 THEN [acc EXCEPT !.waypoint_elevations =
                          Append(@, [name |-> waypoint_name,
                                     elevation_m |-> elevation_data.val.elevation_m])]
                 ELSE [acc EXCEPT !.missing_elevations = Append(@, waypoint_name)])

\* the loss taken with its sign instead of abs(elevation_change)
RECURSIVE gain_and_loss_signed(_, _, _)
gain_and_loss_signed(waypoint_elevations, i, totals) ==
    IF i > Len(waypoint_elevations) - 1 THEN totals
    ELSE LET elevation_change ==
                 waypoint_elevations[i + 1].elevation_m - waypoint_elevations[i].elevation_m
         IN  gain_and_loss_signed(
                 waypoint_elevations, i + 1,
                 IF elevation_change > 0
                 THEN [totals EXCEPT !.gain = @ + elevation_change]
                 ELSE [totals EXCEPT !.loss = @ + elevation_change])

\* every change measured from the first waypoint instead of the previous one
RECURSIVE gain_and_loss_from_start(_, _, _)
gain_and_loss_from_start(waypoint_elevations, i, totals) ==
    IF i > Len(waypoint_elevations) - 1 THEN totals
    ELSE LET elevation_change ==
                 waypoint_elevations[i + 1].elevation_m - waypoint_elevations[1].elevation_m
         IN  gain_and_loss_from_start(
                 waypoint_elevations, i + 1,
                 IF elevation_change > 0
                 THEN [totals EXCEPT !.gain = @ + elevation_change]
                 ELSE [totals EXCEPT !.loss = @ + Abs(elevation_change)])

\* the loop over consecutive waypoint_elevations: total gain and total loss
RECURSIVE gain_and_loss(_, _, _)
gain_and_loss(waypoint_elevations, i, totals) ==
    IF i > Len(waypoint_elevations) - 1 THEN totals
    ELSE LET current_elevation == waypoint_elevations[i].elevation_m
             next_elevation == waypoint_elevations[i + 1].elevation_m
             elevation_change == next_elevation - current_elevation
         IN  gain_and_loss(
                 waypoint_elevations, i + 1,
                 IF elevation_change > 0
                 THEN [totals EXCEPT !.gain = @ + elevation_change]
                 ELSE [totals EXCEPT !.loss = @ + Abs(elevation_change)])

\* next(wp["name"] for wp in waypoint_elevations if wp["elevation_m"] == elevation)
first_waypoint_at(waypoint_elevations, elevation) ==
    waypoint_elevations[
        CHOOSE i \in 1..Len(waypoint_elevations) :
            /\ waypoint_elevations[i].elevation_m = elevation
            /\ \A k \in 1..(i - 1) : waypoint_elevations[k].elevation_m # elevation
    ].name

RouteIncomplete(start_point, end_point) ==
    StrResult(<<"Route from", start_point, "to", end_point,
                "found but missing waypoints or distance data.">>)

ElevationsMissing(missing_elevations) ==
    StrResult(<<"Elevation data not found for the following cities:",
                missing_elevations, "Cannot calculate elevation profile.">>)

InsufficientElevations ==
    StrResult(<<"Insufficient elevation data to calculate profile.",
                "Need at least 2 waypoints.">>)

ElevationNotFound(location) ==
    StrResult(<<"Elevation data not found for", location>>)

ProvideEither ==
    StrResult(<<"Please provide either:", "- A single location name, OR",
                "- Both start_point and end_point for a route elevation profile.">>)

\* the division by distance_km left out
elevation_gain_undivided(total_elevation_gain, distance_km) ==
    RInt(total_elevation_gain)

\* (total_elevation_gain / distance_km) if distance_km > 0 else 0.0
elevation_gain_per_km_of(total_elevation_gain, distance_km) ==
    IF distance_km > 0 THEN Rat(total_elevation_gain, distance_km) ELSE RInt(0)

\* max(elevations) and min(elevations)
max_elevation_of(waypoint_elevations) ==
    LET elevations == {waypoint_elevations[i].elevation_m :
                          i \in 1..Len(waypoint_elevations)}
    IN  CHOOSE e \in elevations : \A u \in elevations : u <= e

min_elevation_of(waypoint_elevations) ==
    LET elevations == {waypoint_elevations[i].elevation_m :
                          i \in 1..Len(waypoint_elevations)}
    IN  CHOOSE e \in elevations : \A u \in elevations : e <= u

\* lines 180-197: the structured output of route mode
profile_output(start_point, end_point, distance_km, waypoint_elevations, totals, elevation_gain_per_km) ==
    DictResult(
        [start_point |-> start_point,
         end_point |-> end_point,
         distance_km |-> distance_km,
         total_elevation_gain |-> totals.gain,
         total_elevation_loss |-> totals.loss,
         max_elevation |-> max_elevation_of(waypoint_elevations),
         max_elevation_waypoint |->
             first_waypoint_at(waypoint_elevations,
                               max_elevation_of(waypoint_elevations)),
         min_elevation |-> min_elevation_of(waypoint_elevations),
         min_elevation_waypoint |->
             first_waypoint_at(waypoint_elevations,
                               min_elevation_of(waypoint_elevations)),
         average_gradient_m_per_km |-> elevation_gain_per_km,
         difficulty_rating |-> calculate_difficulty_rating(elevation_gain_per_km),
         profile |-> waypoint_elevations])

\* lines 170-197: the gradient, the rating and the output
profile_of_totals(start_point, end_point, route, waypoint_elevations, totals) ==
    IF is_null(route, "distance_km")
    THEN Raised("TypeError")
    ELSE profile_output(start_point, end_point, route.distance_km, waypoint_elevations,
                        totals, elevation_gain_per_km_of(totals.gain, route.distance_km))

\* lines 127-197: the two diagnostics after the lookups, then the metrics
profile_of_lookups(start_point, end_point, route, lookups) ==
    IF lookups.missing_elevations # <<>>
    THEN ElevationsMissing(lookups.missing_elevations)
    ELSE IF Len(lookups.waypoint_elevations) < 2 THEN InsufficientElevations
    ELSE profile_of_totals(start_point, end_point, route,
                           lookups.waypoint_elevations,
                           gain_and_loss(lookups.waypoint_elevations, 1,
                                         [gain |-> 0, loss |-> 0]))

\* lines 100-197: the route was found
profile_of_route(start_point, end_point, route) ==
    IF \/ route.waypoints = <<>>
       \/ (~is_null(route, "distance_km") /\ route.distance_km = 0)
    THEN RouteIncomplete(start_point, end_point)
    ELSE profile_of_lookups(start_point, end_point, route,
                            elevation_lookups(route.waypoints, 1,
                                              [waypoint_elevations |-> <<>>,
                                               missing_elevations |-> <<>>]))

\* lines 94-98, then the rest of route mode
profile_or_not_found(found, start_point, end_point) ==
    IF found = None THEN NoRouteFound(start_point, end_point)
    ELSE profile_of_route(start_point, end_point, found.val)

route_elevation_profile(start_point, end_point) ==
    profile_or_not_found(find_route_fuzzy(start_point, end_point, load_routes),
                         start_point, end_point)

location_elevation(location) ==
    LET elevation_data == find_elevation(location)
    IN  IF elevation_data = None THEN ElevationNotFound(location)
        ELSE DictResult([location |-> location,
                         elevation_m |-> elevation_data.val.elevation_m])

get_elevation_profile(location, start_point, end_point) ==
    IF Truthy(start_point) /\ Truthy(end_point)
    THEN route_elevation_profile(start_point.val, end_point.val)
    ELSE IF Truthy(location) THEN location_elevation(location.val)
    ELSE ProvideEither

-----------------------------------------------------------------------------
(* Location labels *)

L_Rome == <<"R", "o", "m", "e">>

L_ROME_sp == <<"R", "O", "M", "E", " ">>

L_rome_pad == <<" ", "r", "o", "m", "e", " ">>

L_Roma == <<"R", "o", "m", "a">>

L_Rom == <<"R", "o", "m">>

L_Oslo == <<"O", "s", "l", "o">>

L_OSLO == <<"O", "S", "L", "O">>

L_Osla == <<"O", "s", "l", "a">>

L_Bern == <<"B", "e", "r", "n">>

L_Copenhagen == <<"C", "o", "p", "e", "n", "h", "a", "g", "e", "n">>

L_Copenhaxyz == <<"C", "o", "p", "e", "n", "h", "a", "x", "y", "z">>

-----------------------------------------------------------------------------
(* Inputs of the schedule calculator *)

MaxNights == 6

NightCounts == (-1)..MaxNights

Patterns ==
    { <<"e", "v", "e", "r", "y", " ", "4", "t", "h", " ", "n", "i", "g", "h", "t">>,
      <<"e", "v", "e", "r", "y", " ", "3", " ", "n", "i", "g", "h", "t", "s">>,
      <<"E", "V", "E", "R", "Y", " ", "2", "N", "D", " ", "N", "I", "G", "H", "T">>,
      <<"E", "v", "e", "r", "y", " ", "1", "s", "t", " ", "N", "i", "g", "h", "t">>,
      <<"e", "v", "e", "r", "y", " ", "0", "t", "h", " ", "n", "i", "g", "h", "t">>,
      <<"e", "v", "e", "r", "y", " ", "1", "5", "t", "h", " ", "n", "i", "g", "h", "t">>,
      <<"i", "n", "v", "a", "l", "i", "d", " ", "p", "a", "t", "t", "e", "r", "n">>,
      <<"e", "v", "e", "r", "y", " ", "n", "i", "g", "h", "t">>,
      <<>>,
      <<"b", "o", "o", "k", " ", "a", " ", "h", "o", "t", "e", "l", " ",
        "e", "v", "e", "r", "y", " ", " ", "3", "r", "d", " ",
        "n", "i", "g", "h", "t", " ", "o", "k">>,
      <<"e", "v", "e", "r", "y", " ", "2", "t", "h", "n", "i", "g", "h", "t">>,
      <<"e", "v", "e", "r", "y", " ", "2", " ", "d", "a", "y", "s">>,
      <<"e", "v", "e", "r", "y", " ", "0", "3", " ", "n", "i", "g", "h", "t", "s">>,
      <<"e", "a", "c", "h", " ", "2", "n", "d", " ", "n", "i", "g", "h", "t">> }

SpecialTypes == {S_hostel, S_hotel}

DefaultTypeArgs == {None, Some(S_hostel), Some(S_camping)}

-----------------------------------------------------------------------------
(* Route collections and queries of the resolver *)

MaxRoutes == 3

Route(start_point, end_point, distance_km, waypoints) ==
    [start_point |-> start_point, end_point |-> end_point,
     distance_km |-> distance_km, waypoints |-> waypoints]

Waypoint(name, km) == [name |-> name, km |-> km]

\* routes a collection may hold: exact, differently written, near and far
\* endpoints (similarity of "rome" to "roma" 75, to "rom" 600/7, to "bern" 25;
\* of "copenhagen" to "copenhaxyz" exactly 70)
RoutePool ==
    { Route(L_Rome, L_Oslo, 100, <<>>),
      Route(L_Roma, L_Oslo, 200, <<>>),
      Route(L_rome_pad, L_OSLO, 300, <<>>),
      Route(L_Rome, L_Osla, 400, <<>>),
      Route(L_Rom, L_Oslo, 500, <<>>),
      Route(L_Bern, L_Oslo, 600, <<>>),
      Route(L_Rome, L_Copenhagen, 700, <<>>) }

\* the sequences over S of length at most n
SeqsUpTo(S, n) == UNION {[1..k -> S] : k \in 0..n}

StartQueries == {L_Rome, L_ROME_sp, L_Roma, L_Bern}

EndQueries == {L_Oslo, L_Osla, L_Copenhaxyz}

DailyAverages == {30, 100, 150}

-----------------------------------------------------------------------------
(* Collections and inputs of the budget estimator *)

L_Turkey == <<"T", "u", "r", "k", "e", "y">>

L_Norway == <<"N", "o", "r", "w", "a", "y">>

L_Italy == <<"I", "t", "a", "l", "y">>

L_US == <<"U", "S">>

S_Hotels_sp == <<"H", "o", "t", "e", "l", "s", " ">>

S_Hostel == <<"H", "o", "s", "t", "e", "l">>

S_HOTEL == <<"H", "O", "T", "E", "L">>

MaxWaypoints == 4

MaxDays == 4

Accommodation(name, type, location, price_per_night, currency) ==
    [name |-> name, type |-> type, location |-> location,
     price_per_night |-> price_per_night, currency |-> currency]

\* places to stay in and near "Rome", none in "Bern"
AccommodationsA ==
    << Accommodation("Camp Tevere", S_camping, L_Rome, 12, "EUR"),
       Accommodation("Grand", S_hotel, L_Rome, 90, "USD"),
       Accommodation("Ostello", S_hostel, L_Rome, 20, "EUR"),
       Accommodation("Albergo", S_hotel, L_Roma, 60, "GBP"),
       Accommodation("Nord", S_Hostel, L_rome_pad, 18, "SEK") >>

S_bnb == <<"b", "n", "b">>

AccommodationsB ==
    << Accommodation("Grand", S_hotel, L_Rome, 90, "USD"),
       Accommodation("Plaza", S_HOTEL, L_ROME_sp, 70, "DKK"),
       Accommodation("Casa", S_bnb, L_Rome, 95, "EUR") >>

AccommodationFiles == {AccommodationsA, AccommodationsB}

\* places in "Copenhagen", exactly 70 similar to "Copenhaxyz"
AccommodationsC ==
    << Accommodation("Havn", S_hostel, L_Copenhagen, 30, "DKK"),
       Accommodation("Strand", S_camping, L_Copenhagen, 9, "DKK") >>

VisaRule(destination, nationality, cost_usd) ==
    [destination |-> destination, nationality |-> nationality, cost_usd |-> cost_usd]

VisaRules ==
    << VisaRule(L_Turkey, L_US, Some(50)),
       VisaRule(L_Norway, L_US, None),
       VisaRule(L_Italy, L_US, Some(0)) >>

\* waypoint names: with places to stay, without, and a record without a name
WaypointNameLists ==
    SeqsUpTo({L_Rome, L_Bern}, MaxWaypoints)
        \cup {<<L_Rome, <<>>, L_Bern>>, <<<<>>, L_Rome, L_Bern>>}

WaypointsOf(names) == [i \in 1..Len(names) |-> Waypoint(names[i], 10 * i)]

BudgetDistances == {90, 100}

BudgetRoutes ==
    {Route(L_Rome, L_Oslo, d, WaypointsOf(names)) :
        d \in BudgetDistances, names \in WaypointNameLists}

DurationArgs ==
    ({Some(d) : d \in (-1)..MaxDays} \X {None, Some(30)})
        \cup ({None} \X {None, Some(0), Some(-5), Some(30), Some(45), Some(100)})

Preferences == {None, Some(S_camping), Some(S_Hotels_sp), Some(S_hostel), Some(S_mixed)}

\* a type in its plain spelling, in upper case, and a type the search does
\* not know
TypePreferences == {Some(S_hotel), Some(S_HOTEL), Some(S_bnb)}

VisaArgs ==
    {<<None, None>>, <<Some(L_Turkey), None>>, <<Some(L_Turkey), Some(L_US)>>,
     <<Some(L_Norway), Some(L_US)>>, <<Some(L_Italy), Some(L_US)>>,
     <<Some(L_Bern), Some(L_US)>>, <<None, Some(L_US)>>, <<Some(<<>>), Some(L_US)>>}

BudgetCall(start_point, end_point, duration, accommodation_preference, visa) ==
    [op |-> "estimate_budget",
     start_point |-> start_point, end_point |-> end_point,
     duration_days |-> duration[1], daily_average_km |-> duration[2],
     accommodation_preference |-> accommodation_preference,
     destination |-> visa[1], nationality |-> visa[2]]

\* the invocations of estimate_budget: every duration argument with every
\* preference, every visa argument, and queries that resolve no route
BudgetCalls ==
    {BudgetCall(L_ROME_sp, L_Oslo, d, p, <<None, None>>) :
        d \in DurationArgs, p \in Preferences}
    \cup {BudgetCall(L_ROME_sp, L_Oslo, d, p, <<None, None>>) :
        d \in {<<Some(2), None>>, <<None, Some(30)>>}, p \in TypePreferences}
    \cup {BudgetCall(L_Rome, L_Osla, d, None, v) :
        d \in {<<Some(2), None>>, <<None, Some(30)>>}, v \in VisaArgs}
    \cup {BudgetCall(L_Bern, L_Oslo, d, None, <<None, None>>) :
        d \in {<<Some(2), None>>, <<None, Some(30)>>, <<None, None>>, <<None, Some(0)>>}}

-----------------------------------------------------------------------------
(* Collections and inputs of the tools taken together *)

S_July == <<"J", "u", "l", "y">>

S_jul == <<"j", "u", "l">>

S_JULY_pad == <<" ", "J", "U", "L", "Y", " ">>

S_7 == <<"7">>

S_13 == <<"1", "3">>

S_January == <<"J", "a", "n", "u", "a", "r", "y">>

S_DECEMBER == <<"D", "E", "C", "E", "M", "B", "E", "R">>

S_Dec == <<"D", "e", "c">>

S_12 == <<"1", "2">>

WeatherEntry(location, month, avg_temperature_c, rainy_days, cycling_suitability) ==
    [location |-> location, month |-> month,
     avg_temperature_c |-> avg_temperature_c, rainy_days |-> rainy_days,
     cycling_suitability |-> cycling_suitability]

WeatherEntries ==
    << WeatherEntry(L_Roma, S_July, 27, 2, "Good"),
       WeatherEntry(L_Rome, S_January, 8, 9, "Fair"),
       WeatherEntry(L_Rome, S_July, 26, 3, "Good"),
       WeatherEntry(L_Oslo, S_July, 17, 11, "Fair") >>

\* records of one month written in three ways, two of them for one place
WeatherEntriesTied ==
    << WeatherEntry(L_rome_pad, S_jul, 24, 4, "Good"),
       WeatherEntry(L_Rome, S_7, 25, 5, "Good"),
       WeatherEntry(L_Roma, S_January, 9, 8, "Fair"),
       WeatherEntry(L_Bern, S_DECEMBER, 1, 12, "Poor") >>

WeatherFiles == {WeatherEntries, WeatherEntriesTied, <<>>}

ElevationEntry(location, elevation_m) ==
    [location |-> location, elevation_m |-> elevation_m]

ElevationEntries ==
    << ElevationEntry(L_Rome, 20),
       ElevationEntry(L_Bern, 540),
       ElevationEntry(L_Oslo, 10) >>

ElevationFiles == {ElevationEntries, <<>>}

\* routes with a full profile, without waypoints, without distance, with a
\* waypoint that has no elevation record, and with a single waypoint
ToolRoutes ==
    << Route(L_Rome, L_Oslo, 100,
             <<Waypoint(L_Rome, 0), Waypoint(L_Bern, 50), Waypoint(L_Oslo, 100)>>),
       Route(L_Rome, L_Copenhagen, 700, <<>>),
       Route(L_Bern, L_Oslo, 0, <<Waypoint(L_Bern, 0), Waypoint(L_Oslo, 0)>>),
       Route(L_Bern, L_Copenhagen, 300,
             <<Waypoint(L_Bern, 0), Waypoint(L_Copenhagen, 300)>>),
       Route(L_Oslo, L_Bern, 200, <<Waypoint(L_Oslo, 0)>>) >>

\* the routes file of the repository's kind, and a missing or malformed file,
\* which load_routes reads as the empty list
RouteFiles == {ToolRoutes, <<>>}

ToolStartQueries == {L_Rome, L_ROME_sp, L_Bern, L_Oslo}

ToolEndQueries == {L_Oslo, L_Copenhaxyz, L_Bern}

AccommodationQueries == {L_Rome, L_Roma, L_Bern, L_Copenhaxyz}

AccommodationTypeArgs == {S_all, S_Hotels_sp, S_camp, S_hostels, S_mixed}

WeatherQueries == {L_Rome, L_Roma, L_Bern}

MonthArgs == {S_July, S_jul, S_JULY_pad, S_7, S_13, S_January, S_Dec, S_12}

\* (location, start_point, end_point) of get_elevation_profile: a location,
\* both endpoints, one endpoint only, an empty string, nothing
ElevationArgs ==
    {<<Some(l), None, None>> : l \in {L_Rome, L_rome_pad, L_Copenhagen, <<>>}}
    \cup {<<None, Some(s), Some(e)>> : s \in ToolStartQueries, e \in ToolEndQueries}
    \cup {<<None, Some(L_Rome), None>>, <<Some(L_Bern), None, Some(L_Oslo)>>,
          <<Some(L_Bern), Some(L_Rome), Some(L_Oslo)>>, <<None, None, None>>,
          <<None, Some(<<>>), Some(L_Oslo)>>}

ToolBudgetCalls ==
    {BudgetCall(s, e, d, p, <<None, None>>) :
        s \in {L_ROME_sp, L_Bern}, e \in {L_Oslo, L_Copenhaxyz},
        d \in {<<Some(2), None>>, <<Some(1), Some(30)>>, <<None, Some(30)>>,
               <<None, None>>, <<None, Some(0)>>, <<None, Some(-5)>>},
        p \in {None, Some(S_Hotels_sp)}}

-----------------------------------------------------------------------------
(* Actions *)

CalculateAccommodationSchedule ==
    /\ pc = "idle"
    /\ \E total_nights \in NightCounts, preference_pattern \in Patterns,
          accommodation_type \in SpecialTypes, default_type \in DefaultTypeArgs :
          /\ call' = [op |-> "calculate_accommodation_schedule",
                      total_nights |-> total_nights,
                      preference_pattern |-> preference_pattern,
                      accommodation_type |-> accommodation_type,
                      default_type |-> default_type]
          /\ result' = calculate_accommodation_schedule(
                           total_nights, preference_pattern,
                           accommodation_type, default_type)
    /\ pc' = "returned"
    /\ UNCHANGED files

\* the caller takes the returned value; the tool keeps nothing of the call
Return ==
    /\ pc = "returned"
    /\ pc' = "idle"
    /\ call' = NoCall
    /\ result' = NoResult
    /\ UNCHANGED files

\* find_route_fuzzy called on the loaded collection, as each tool calls it
FindRouteFuzzy ==
    /\ pc = "idle"
    /\ \E start_point \in StartQueries, end_point \in EndQueries :
          /\ call' = [op |-> "find_route_fuzzy",
                      start_point |-> start_point, end_point |-> end_point]
          /\ result' = [type |-> "route",
                        index |-> find_route_fuzzy_index(start_point, end_point,
                                                         load_routes),
                        value |-> find_route_fuzzy(start_point, end_point,
                                                   load_routes)]
    /\ pc' = "returned"
    /\ UNCHANGED files

\* daily_average_km is positive: the tool's input schema requires gt=0
GetRoute ==
    /\ pc = "idle"
    /\ \E start_point \in StartQueries, end_point \in EndQueries,
          daily_average_km \in DailyAverages :
          /\ call' = [op |-> "get_route",
                      start_point |-> start_point, end_point |-> end_point,
                      daily_average_km |-> daily_average_km]
          /\ result' = get_route(start_point, end_point, daily_average_km)
    /\ pc' = "returned"
    /\ UNCHANGED files

EstimateBudget ==
    /\ pc = "idle"
    /\ \E c \in BudgetCalls :
          /\ call' = c
          /\ result' = estimate_budget(c.start_point, c.end_point, c.duration_days,
                                       c.daily_average_km, c.accommodation_preference,
                                       c.destination, c.nationality)
    /\ pc' = "returned"
    /\ UNCHANGED files

InitSchedule ==
    /\ routesFile = <<>>
    /\ accommodationsFile = <<>>
    /\ visaFile = <<>>
    /\ weatherFile = <<>>
    /\ elevationsFile = <<>>
    /\ pc = "idle"
    /\ call = NoCall
    /\ result = NoResult

NextSchedule == CalculateAccommodationSchedule \/ Return

SpecSchedule == InitSchedule /\ [][NextSchedule]_vars

InitRoute ==
    /\ routesFile \in SeqsUpTo(RoutePool, MaxRoutes)
    /\ accommodationsFile = <<>>
    /\ visaFile = <<>>
    /\ weatherFile = <<>>
    /\ elevationsFile = <<>>
    /\ pc = "idle"
    /\ call = NoCall
    /\ result = NoResult

NextRoute == FindRouteFuzzy \/ Return

SpecRoute == InitRoute /\ [][NextRoute]_vars

InitBudget ==
    /\ routesFile \in {<<r>> : r \in BudgetRoutes}
    /\ accommodationsFile \in AccommodationFiles
    /\ visaFile = VisaRules
    /\ weatherFile = <<>>
    /\ elevationsFile = <<>>
    /\ pc = "idle"
    /\ call = NoCall
    /\ result = NoResult

NextBudget == EstimateBudget \/ GetRoute \/ Return

SpecBudget == InitBudget /\ [][NextBudget]_vars

FindAccommodation ==
    /\ pc = "idle"
    /\ \E location \in AccommodationQueries,
          accommodation_type \in AccommodationTypeArgs :
          /\ call' = [op |-> "find_accommodation", location |-> location,
                      accommodation_type |-> accommodation_type]
          /\ result' = find_accommodation(location, accommodation_type)
    /\ pc' = "returned"
    /\ UNCHANGED files

GetWeather ==
    /\ pc = "idle"
    /\ \E location \in WeatherQueries, month \in MonthArgs :
          /\ call' = [op |-> "get_weather", location |-> location, month |-> month]
          /\ result' = get_weather(location, month)
    /\ pc' = "returned"
    /\ UNCHANGED files

GetElevationProfile ==
    /\ pc = "idle"
    /\ \E args \in ElevationArgs :
          /\ call' = [op |-> "get_elevation_profile", location |-> args[1],
                      start_point |-> args[2], end_point |-> args[3]]
          /\ result' = get_elevation_profile(args[1], args[2], args[3])
    /\ pc' = "returned"
    /\ UNCHANGED files

GetRouteTool ==
    /\ pc = "idle"
    /\ \E start_point \in ToolStartQueries, end_point \in ToolEndQueries,
          daily_average_km \in DailyAverages :
          /\ call' = [op |-> "get_route",
                      start_point |-> start_point, end_point |-> end_point,
                      daily_average_km |-> daily_average_km]
          /\ result' = get_route(start_point, end_point, daily_average_km)
    /\ pc' = "returned"
    /\ UNCHANGED files

EstimateBudgetTool ==
    /\ pc = "idle"
    /\ \E c \in ToolBudgetCalls :
          /\ call' = c
          /\ result' = estimate_budget(c.start_point, c.end_point, c.duration_days,
                                       c.daily_average_km, c.accommodation_preference,
                                       c.destination, c.nationality)
    /\ pc' = "returned"
    /\ UNCHANGED files

Init ==
    /\ routesFile \in RouteFiles
    /\ accommodationsFile \in {AccommodationsA, AccommodationsC, <<>>}
    /\ visaFile = VisaRules
    /\ weatherFile \in WeatherFiles
    /\ elevationsFile \in ElevationFiles
    /\ pc = "idle"
    /\ call = NoCall
    /\ result = NoResult

Next ==
    \/ GetRouteTool
    \/ FindAccommodation
    \/ GetWeather
    \/ GetElevationProfile
    \/ CalculateAccommodationSchedule
    \/ EstimateBudgetTool
    \/ Return

Spec == Init /\ [][Next]_vars

-----------------------------------------------------------------------------
(* Abbreviations for the properties *)

Returned(op) == pc = "returned" /\ call.op = op

\* the period parse_pattern extracts from the pending call's pattern
CallPeriod == parse_pattern(call.preference_pattern)

CallDefaultType ==
    IF call.default_type = None THEN S_camping ELSE call.default_type.val

\* a schedule call with valid input: positive total_nights and period
ValidScheduleCall ==
    /\ Returned("calculate_accommodation_schedule")
    /\ call.total_nights > 0
    /\ CallPeriod # None
    /\ CallPeriod.val > 0

RECURSIVE SumSeq(_)
SumSeq(s) == IF s = <<>> THEN 0 ELSE Head(s) + SumSeq(Tail(s))

\* similarity of field f of routesFile[i] to the query label
FieldSimilarity(query, i, f) ==
    fuzz_ratio(normalize_location(query), normalize_location(routesFile[i][f]))

\* the routes of the collection that qualify for the pending call's query
Qualifying ==
    {i \in 1..Len(routesFile) :
        /\ RLe(RInt(SIMILARITY_THRESHOLD), FieldSimilarity(call.start_point, i, "start_point"))
        /\ RLe(RInt(SIMILARITY_THRESHOLD), FieldSimilarity(call.end_point, i, "end_point"))}

\* twice the arithmetic mean of the two similarities of routesFile[i]
TwiceMean(i) ==
    RAdd(FieldSimilarity(call.start_point, i, "start_point"),
         FieldSimilarity(call.end_point, i, "end_point"))

\* the routes whose normalized endpoints equal the normalized query
ExactEntries ==
    {i \in 1..Len(routesFile) :
        /\ normalize_location(routesFile[i].start_point) = normalize_location(call.start_point)
        /\ normalize_location(routesFile[i].end_point) = normalize_location(call.end_point)}

\* the route the pending budget call resolves (defined when one qualifies)
CallRoute == routesFile[CHOOSE i \in Qualifying :
                            \A j \in Qualifying :
                                \/ RLt(TwiceMean(j), TwiceMean(i))
                                \/ (TwiceMean(j) = TwiceMean(i) /\ i <= j)]

BudgetReturnedDict == Returned("estimate_budget") /\ result.type = "dict"

Breakdown == result.value.accommodation.breakdown

NonNegative(x) == RLe(RInt(0), x)

-----------------------------------------------------------------------------
(* Properties of the schedule calculator, checked under SpecSchedule *)

\* C1: for total_nights > 0 and a parsed period N > 0 the schedule's keys
\* are exactly 1..total_nights, every night listed in special_nights maps to
\* the special accommodation_type and every other night to default_type
\* ("camping" when default_type is omitted).
C1_ScheduleCoversEveryNight ==
    ValidScheduleCall =>
        /\ result.type = "dict"
        /\ "schedule" \in DOMAIN result.value
        /\ DOMAIN result.value.schedule = 1..call.total_nights
        /\ \A night \in 1..call.total_nights :
              result.value.schedule[night] =
                  IF night \in SeqToSet(result.value.special_nights)
                  THEN call.accommodation_type
                  ELSE CallDefaultType

C1_Witness ==
    /\ ValidScheduleCall
    /\ call.default_type = None
    /\ result.value.special_nights # <<>>
    /\ \E night \in 1..call.total_nights : result.value.schedule[night] = S_camping

\* C2: special_nights is exactly the ascending list of the multiples of N in
\* 1..total_nights; when N > total_nights it is empty and the result is a
\* normal one in which every night has default_type.
C2_SpecialNightsAreMultiples ==
    ValidScheduleCall =>
        LET sn == result.value.special_nights
            N  == CallPeriod.val
        IN  /\ "error" \notin DOMAIN result.value
            /\ SeqToSet(sn) = {k \in 1..call.total_nights : k % N = 0}
            /\ \A i \in 1..(Len(sn) - 1) : sn[i] < sn[i + 1]
            /\ N > call.total_nights =>
                  /\ sn = <<>>
                  /\ \A night \in 1..call.total_nights :
                        result.value.schedule[night] = CallDefaultType

C2_Witness ==
    /\ ValidScheduleCall
    /\ CallPeriod.val >= 2
    /\ Len(result.value.special_nights) >= 2

\* C3: when the pattern matches neither form, or the period is 0, or
\* total_nights <= 0, the result is an error outcome that holds neither a
\* schedule nor special_nights.
C3_InvalidInputGivesErrorOnly ==
    (/\ Returned("calculate_accommodation_schedule")
     /\ \/ CallPeriod = None
        \/ CallPeriod.val = 0
        \/ call.total_nights <= 0)
    => /\ "error" \in DOMAIN result.value
       /\ "schedule" \notin DOMAIN result.value
       /\ "special_nights" \notin DOMAIN result.value

C3_Witness ==
    /\ Returned("calculate_accommodation_schedule")
    /\ CallPeriod # None
    /\ CallPeriod.val > 0
    /\ call.total_nights <= 0
    /\ DOMAIN result.value = {"error"}

-----------------------------------------------------------------------------
(* Properties of the budget estimator, checked under SpecBudget *)

StopsAreNamed(waypoints) ==
    \A i \in 1..(Len(waypoints) - 1) : waypoints[i].name # <<>>

C6_AmountsNonNegative ==
    (BudgetReturnedDict /\ result.value.estimated_days >= 1)
    => /\ \A i \in 1..Len(Breakdown) : NonNegative(Breakdown[i].total_cost)
       /\ NonNegative(result.value.accommodation.total_eur)
       /\ NonNegative(result.value.food.total_eur)
       /\ NonNegative(result.value.visa.cost_eur)
       /\ NonNegative(result.value.visa.cost_usd)
       /\ NonNegative(result.value.other_expenses.total_eur)
       /\ NonNegative(result.value.total_eur)
       /\ NonNegative(result.value.total_usd)

\* whether d is the smallest integer with d * daily_average_km >= distance_km
IsCeiling(d, distance_km, daily_average_km) ==
    /\ d * daily_average_km >= distance_km
    /\ (d - 1) * daily_average_km < distance_km

\* C7: the trip length is duration_days whenever it is supplied, whatever the
\* distance and daily_average_km, and otherwise the smallest integer d with
\* d * daily_average_km >= distance_km; get_route's estimated_days follows
\* the same ceiling rule.
C7_TripLength ==
    /\ BudgetReturnedDict =>
          IF call.duration_days # None
          THEN result.value.estimated_days = call.duration_days.val
          ELSE IsCeiling(result.value.estimated_days, CallRoute.distance_km,
                         call.daily_average_km.val)
    /\ (Returned("get_route") /\ result.type = "dict") =>
          IsCeiling(result.value.estimated_days, CallRoute.distance_km,
                    call.daily_average_km)

C7_Witness ==
    /\ BudgetReturnedDict
    /\ call.duration_days = None
    /\ CallRoute.distance_km % call.daily_average_km.val # 0
    /\ result.value.estimated_days = 4

\* C8: an unresolvable route gives the 'no route' diagnostic whatever the
\* duration arguments are; with a resolved route and no duration_days, a
\* missing or non-positive daily_average_km gives a diagnostic string: no
\* breakdown, and no division by it.
C8_DurationAndRouteDiagnostics ==
    Returned("estimate_budget") =>
        /\ Qualifying = {} =>
              result = NoRouteFound(call.start_point, call.end_point)
        /\ (/\ Qualifying # {}
            /\ call.duration_days = None
            /\ (call.daily_average_km = None \/ call.daily_average_km.val <= 0))
           => (result.type = "str" /\ result # NoRouteFound(call.start_point, call.end_point))

C8_Witness ==
    /\ Returned("estimate_budget")
    /\ Qualifying # {}
    /\ call.duration_days = None
    /\ call.daily_average_km # None
    /\ call.daily_average_km.val = 0
    /\ result.type = "str"

-----------------------------------------------------------------------------
(* Properties of the route resolver, checked under SpecRoute *)

\* C9: find_route_fuzzy returns a route only if both similarities are at
\* least 70; among the qualifying routes it returns the one with the highest
\* mean similarity, the first in collection order among those that share it;
\* it returns None exactly when no route qualifies.
C9_BestQualifyingRoute ==
    Returned("find_route_fuzzy") =>
        /\ (result.index = 0) <=> (Qualifying = {})
        /\ (result.index = 0) <=> (result.value = None)
        /\ result.index # 0 =>
              /\ result.index \in Qualifying
              /\ result.value = Some(routesFile[result.index])
              /\ \A j \in Qualifying :
                    \/ RLt(TwiceMean(j), TwiceMean(result.index))
                    \/ (TwiceMean(j) = TwiceMean(result.index) /\ result.index <= j)

C9_Witness ==
    /\ Returned("find_route_fuzzy")
    /\ result.index # 0
    /\ \E j \in Qualifying :
          /\ j > result.index
          /\ TwiceMean(j) = TwiceMean(result.index)
          /\ routesFile[j] # routesFile[result.index]
    /\ \E j \in Qualifying : j < result.index

\* C10: whenever the collection holds an entry whose normalized endpoints
\* equal the normalized query, find_route_fuzzy returns an entry with exactly
\* those normalized endpoints, whatever else the collection holds and in
\* whatever order.
C10_ExactEntryWins ==
    (Returned("find_route_fuzzy") /\ ExactEntries # {})
    => result.index \in ExactEntries

C10_Witness ==
    /\ Returned("find_route_fuzzy")
    /\ result.index \in ExactEntries
    /\ result.index > 1
    /\ 1 \in Qualifying

-----------------------------------------------------------------------------
(* How the tools report what they cannot answer, checked under Spec *)

CoreOps ==
    {"get_route", "find_accommodation", "get_weather", "get_elevation_profile",
     "calculate_accommodation_schedule", "estimate_budget"}

\* the pending call asked a route-mode profile
RouteMode == Truthy(call.start_point) /\ Truthy(call.end_point)

\* the pending call of get_elevation_profile cannot be answered: no route, a
\* route without waypoints or distance, a waypoint without elevation, fewer
\* than two waypoints, an unknown location, or neither argument form
ElevationUnanswerable ==
    IF RouteMode
    THEN LET found == find_route_fuzzy(call.start_point.val, call.end_point.val,
                                       routesFile)
             waypoints == found.val.waypoints
         IN  \/ found = None
             \/ waypoints = <<>>
             \/ found.val.distance_km = 0
             \/ \E i \in 1..Len(waypoints) : find_elevation(waypoints[i].name) = None
             \/ Len(waypoints) < 2
    ELSE IF Truthy(call.location) THEN find_elevation(call.location.val) = None
    ELSE TRUE

\* the pending call has a not-found or invalid-input outcome
Unanswerable ==
    CASE call.op = "get_route" ->
            find_route_fuzzy(call.start_point, call.end_point, routesFile) = None
      [] call.op = "find_accommodation" ->
            find_accommodations(call.location, call.accommodation_type,
                                accommodationsFile) = <<>>
      [] call.op = "get_weather" ->
            find_weather(call.location, call.month, weatherFile) = None
      [] call.op = "get_elevation_profile" -> ElevationUnanswerable
      [] call.op = "calculate_accommodation_schedule" -> ~ValidScheduleCall
      [] call.op = "estimate_budget" ->
            \/ find_route_fuzzy(call.start_point, call.end_point, routesFile) = None
            \/ /\ call.duration_days = None
               /\ (call.daily_average_km = None \/ call.daily_average_km.val <= 0)

\* the result is the mapping {"error": message} and nothing else
IsErrorMapping == result.type = "dict" /\ DOMAIN result.value = {"error"}

-----------------------------------------------------------------------------
(* The difficulty classifier on its own: calculate_difficulty_rating applied *)
(* to gradients in steps of one half                                         *)

MaxGradient == 60

Gradients == {Rat(n, 2) : n \in (-4)..(2 * MaxGradient)}

CalculateDifficultyRating ==
    /\ pc = "idle"
    /\ \E elevation_gain_per_km \in Gradients :
          /\ call' = [op |-> "calculate_difficulty_rating",
                      elevation_gain_per_km |-> elevation_gain_per_km]
          /\ result' = StrResult(calculate_difficulty_rating(elevation_gain_per_km))
    /\ pc' = "returned"
    /\ UNCHANGED files

NextDifficulty == CalculateDifficultyRating \/ Return

SpecDifficulty == InitSchedule /\ [][NextDifficulty]_vars

\* C15: the difficulty rating is decided by the gradient alone, on half-open
\* intervals whose lower bound is inclusive: below 10 Easy, from 10 and below
\* 30 Moderate, from 30 and below 50 Hard, from 50 on Very Hard; so 10 is
\* Moderate, 30 is Hard and 50 is Very Hard, and every gradient has exactly
\* one rating.
C15_DifficultyIntervals ==
    Returned("calculate_difficulty_rating") =>
        LET g == call.elevation_gain_per_km
            rating == result.value
        IN  /\ result.type = "str"
            /\ rating \in {S_Easy, S_Moderate, S_Hard, S_VeryHard}
            /\ rating = S_Easy <=> RLt(g, RInt(10))
            /\ rating = S_Moderate <=> (RLe(RInt(10), g) /\ RLt(g, RInt(30)))
            /\ rating = S_Hard <=> (RLe(RInt(30), g) /\ RLt(g, RInt(50)))
            /\ rating = S_VeryHard <=> RLe(RInt(50), g)

\* the gradient exactly 30, the lower bound of Hard, was rated Hard
C15_Witness ==
    /\ Returned("calculate_difficulty_rating")
    /\ call.elevation_gain_per_km = RInt(30)
    /\ result.value = S_Hard

-----------------------------------------------------------------------------
(* Route-mode elevation profiles over routes of every waypoint sequence *)

MaxProfile == 4

ProfileNames == {L_Rome, L_Bern, L_Copenhagen}

\* 0: a route record whose distance is missing or zero
ProfileDistances == {0, 10, 100}

ProfileRoutes ==
    {Route(L_Rome, L_Oslo, d, WaypointsOf(names)) :
        d \in ProfileDistances, names \in SeqsUpTo(ProfileNames, MaxProfile)}

\* elevation collections: level, rising and falling ground between "Rome",
\* "Bern" and "Oslo" (none has "Copenhagen"), one place only, and no record
ProfileElevationFiles ==
    {<<ElevationEntry(L_Rome, a), ElevationEntry(L_Bern, b), ElevationEntry(L_Oslo, 10)>> :
        a \in {20, 540}, b \in {20, 540}}
    \cup {<<ElevationEntry(L_Rome, 20)>>, <<>>}

ProfileQueries == {<<L_Rome, L_Oslo>>, <<L_ROME_sp, L_Osla>>, <<L_Bern, L_Oslo>>}

\* get_elevation_profile called with both endpoints
GetRouteElevationProfile ==
    /\ pc = "idle"
    /\ \E q \in ProfileQueries :
          /\ call' = [op |-> "get_elevation_profile", location |-> None,
                      start_point |-> Some(q[1]), end_point |-> Some(q[2])]
          /\ result' = get_elevation_profile(None, Some(q[1]), Some(q[2]))
    /\ pc' = "returned"
    /\ UNCHANGED files

InitElevation ==
    /\ routesFile \in {<<r>> : r \in ProfileRoutes}
    /\ accommodationsFile = <<>>
    /\ visaFile = <<>>
    /\ weatherFile = <<>>
    /\ elevationsFile \in ProfileElevationFiles
    /\ pc = "idle"
    /\ call = NoCall
    /\ result = NoResult

NextElevation == GetRouteElevationProfile \/ Return

SpecElevation == InitElevation /\ [][NextElevation]_vars

\* a route-mode call of get_elevation_profile returned
RouteProfileReturned == Returned("get_elevation_profile") /\ RouteMode

\* the route the pending route-mode call resolves, None when there is none
ProfileRoute ==
    find_route_fuzzy(call.start_point.val, call.end_point.val, routesFile)

\* the elevation on record for a waypoint name
ElevationOf(name) == find_elevation(name).val.elevation_m

\* the differences between consecutive elevations of a profile
ElevationChanges(profile) ==
    [i \in 1..(Len(profile) - 1) |-> profile[i + 1].elevation_m - profile[i].elevation_m]

PositivePart(x) == IF x > 0 THEN x ELSE 0

\* C16: in route mode the profile holds the route's waypoints in route order
\* with their elevations, total_elevation_gain is the sum of the positive
\* differences between consecutive elevations and total_elevation_loss the
\* sum of the absolute values of the negative ones; two equal consecutive
\* elevations add to neither.
C16_GainAndLoss ==
    (RouteProfileReturned /\ result.type = "dict") =>
        LET profile == result.value.profile
            waypoints == ProfileRoute.val.waypoints
            changes == ElevationChanges(profile)
        IN  /\ Len(profile) = Len(waypoints)
            /\ \A i \in 1..Len(profile) :
                  /\ profile[i].name = waypoints[i].name
                  /\ profile[i].elevation_m = ElevationOf(waypoints[i].name)
            /\ result.value.total_elevation_gain =
                  SumSeq([i \in DOMAIN changes |-> PositivePart(changes[i])])
            /\ result.value.total_elevation_loss =
                  SumSeq([i \in DOMAIN changes |-> PositivePart(-changes[i])])

\* a profile that rises, stays level and falls
C16_Witness ==
    /\ RouteProfileReturned
    /\ result.type = "dict"
    /\ \E i, j, k \in 1..(Len(result.value.profile) - 1) :
          /\ ElevationChanges(result.value.profile)[i] > 0
          /\ ElevationChanges(result.value.profile)[j] = 0
          /\ ElevationChanges(result.value.profile)[k] < 0
    /\ result.value.total_elevation_gain > 0
    /\ result.value.total_elevation_loss > 0

\* the gradient of a returned profile is its gain over the route's distance
\* and the rating is the classification of that gradient
GradientIsGainOverDistance ==
    (RouteProfileReturned /\ result.type = "dict") =>
        /\ result.value.distance_km = ProfileRoute.val.distance_km
        /\ result.value.distance_km # 0
        /\ RMul(result.value.average_gradient_m_per_km, RInt(result.value.distance_km))
              = RInt(result.value.total_elevation_gain)
        /\ result.value.difficulty_rating =
              calculate_difficulty_rating(result.value.average_gradient_m_per_km)

\* the pending route-mode call resolved a route whose distance is 0
ZeroDistanceResolved ==
    /\ RouteProfileReturned
    /\ ProfileRoute # None
    /\ ProfileRoute.val.distance_km = 0

\* C17 as stated: the gradient is total gain divided by route distance, and
\* a resolved route whose distance is 0 yields a result with gradient 0 and
\* difficulty Easy rather than a division failure.
C17_ZeroDistanceGivesGradientZero ==
    /\ (RouteProfileReturned /\ result.type = "dict") =>
          \/ /\ result.value.distance_km # 0
             /\ RMul(result.value.average_gradient_m_per_km,
                     RInt(result.value.distance_km))
                   = RInt(result.value.total_elevation_gain)
          \/ /\ result.value.distance_km = 0
             /\ result.value.average_gradient_m_per_km = RInt(0)
    /\ ZeroDistanceResolved =>
          /\ result.type = "dict"
          /\ result.value.average_gradient_m_per_km = RInt(0)
          /\ result.value.difficulty_rating = S_Easy

\* C17 amended: the gradient of every returned profile is total gain divided
\* by route distance and the rating classifies it; a resolved route whose
\* distance is 0 yields no profile and no division failure but the
\* diagnostic string that the route lacks waypoints or distance data.
C17_ZeroDistanceGivesDiagnostic ==
    /\ GradientIsGainOverDistance
    /\ ZeroDistanceResolved =>
          result = RouteIncomplete(call.start_point.val, call.end_point.val)

\* a route of distance 0 whose waypoints all have elevations was answered by
\* the diagnostic
C17_Witness ==
    /\ ZeroDistanceResolved
    /\ Len(ProfileRoute.val.waypoints) >= 2
    /\ \A i \in 1..Len(ProfileRoute.val.waypoints) :
          find_elevation(ProfileRoute.val.waypoints[i].name) # None
    /\ result.type = "str"

\* the names of the waypoints without an elevation on record, in route order
Unresolved(waypoints) ==
    LET names == [i \in 1..Len(waypoints) |-> waypoints[i].name]
        NotOnRecord(name) == find_elevation(name) = None
    IN  SelectSeq(names, NotOnRecord)

\* the result is a diagnostic string: no metrics and no exception
IsDiagnostic == result.type = "str"

\* the route of the pending call was not found, or it has an unresolvable
\* waypoint, or fewer than 2 of its waypoints have elevations
ProfileUnanswerable ==
    \/ ProfileRoute = None
    \/ Unresolved(ProfileRoute.val.waypoints) # <<>>
    \/ Len(ProfileRoute.val.waypoints)
          - Len(Unresolved(ProfileRoute.val.waypoints)) < 2

\* C18 as stated: route mode returns a diagnostic string when the route is
\* not found, when fewer than 2 waypoints have elevations or when a
\* waypoint's elevation is unresolvable; in the last case the diagnostic
\* lists every unresolved waypoint name in route order, also when fewer than
\* 2 waypoints have elevations.
C18_EveryUnresolvedWaypointListed ==
    RouteProfileReturned =>
        /\ ProfileUnanswerable => IsDiagnostic
        /\ ProfileRoute = None =>
              result = NoRouteFound(call.start_point.val, call.end_point.val)
        /\ (ProfileRoute # None /\ Unresolved(ProfileRoute.val.waypoints) # <<>>) =>
              result = ElevationsMissing(Unresolved(ProfileRoute.val.waypoints))

\* C18 amended: route mode returns a diagnostic string when the route is not
\* found, when fewer than 2 waypoints have elevations or when a waypoint's
\* elevation is unresolvable; for a route with a non-zero distance the
\* diagnostic of the last case lists every unresolved waypoint name in route
\* order and takes precedence over the fewer-than-2-waypoints one; a route
\* without waypoints or with distance 0 is answered before any elevation is
\* looked up, by the diagnostic that waypoints or distance data are missing.
C18_UnresolvedListedForRoutesWithDistance ==
    RouteProfileReturned =>
        /\ ProfileUnanswerable => IsDiagnostic
        /\ ProfileRoute = None =>
              result = NoRouteFound(call.start_point.val, call.end_point.val)
        /\ ProfileRoute # None =>
              LET route == ProfileRoute.val
              IN  IF route.waypoints = <<>> \/ route.distance_km = 0
                  THEN result = RouteIncomplete(call.start_point.val,
                                                call.end_point.val)
                  ELSE IF Unresolved(route.waypoints) # <<>>
                  THEN result = ElevationsMissing(Unresolved(route.waypoints))
                  ELSE IF Len(route.waypoints) < 2
                  THEN result = InsufficientElevations
                  ELSE result.type = "dict"

\* a route with distance whose waypoints resolve but for two, with fewer than
\* 2 resolved, was answered by the list of the two
C18_Witness ==
    /\ RouteProfileReturned
    /\ ProfileRoute # None
    /\ ProfileRoute.val.distance_km > 0
    /\ Len(Unresolved(ProfileRoute.val.waypoints)) = 2
    /\ Len(ProfileRoute.val.waypoints) = 3
    /\ Unresolved(ProfileRoute.val.waypoints)[1] # Unresolved(ProfileRoute.val.waypoints)[2]
    /\ result = ElevationsMissing(Unresolved(ProfileRoute.val.waypoints))

-----------------------------------------------------------------------------
(* Location matching of the three lookups, checked under Spec *)

Upper(s) == [i \in 1..Len(s) |-> UpperChar(s[i])]

\* ways to write a label again: as it is, in lower case, in upper case, and
\* with whitespace before and after
Rewritings == {"same", "lower", "upper", "padded"}

Rewritten(label, how) ==
    CASE how = "same" -> label
      [] how = "lower" -> Lower(label)
      [] how = "upper" -> Upper(label)
      [] how = "padded" -> <<" ", "\t">> \o label \o <<" ">>

\* a collection with the given label fields of every record written again
Relabelled(records, fields, how) ==
    [i \in 1..Len(records) |->
        [f \in DOMAIN records[i] |->
            IF f \in fields THEN Rewritten(records[i][f], how) ELSE records[i][f]]]

\* the answer of get_route is made from routesFile[i], not found for i = 0
RouteAnswerIs(i) ==
    IF i = 0 THEN result.type = "str"
    ELSE /\ result.type = "dict"
         /\ result.value.start_point = routesFile[i].start_point
         /\ result.value.end_point = routesFile[i].end_point
         /\ result.value.distance_km = routesFile[i].distance_km
         /\ result.value.waypoints = routesFile[i].waypoints

\* the answer of get_weather is made from weatherFile[i], not found for i = 0
WeatherAnswerIs(i) ==
    IF i = 0 THEN result.type = "str"
    ELSE /\ result.type = "dict"
         /\ result.value.avg_temperature_c = weatherFile[i].avg_temperature_c
         /\ result.value.rainy_days = weatherFile[i].rainy_days
         /\ result.value.cycling_suitability = weatherFile[i].cycling_suitability

\* the names of the accommodations of a list, in order
NamesOf(accommodations) ==
    [i \in 1..Len(accommodations) |-> accommodations[i].name]

\* the names of the accommodations answered by find_accommodation, in order
AnsweredNames ==
    IF result.type = "str" THEN <<>> ELSE NamesOf(result.value.accommodations)

-----------------------------------------------------------------------------
(* The weather lookup, checked under Spec *)

\* the number of the month a text denotes by its full name, its three-letter
\* abbreviation or its number "1" .. "12", in any letter case and with
\* whitespace around it; 0 when it denotes none
MonthDenoted(text) ==
    LET t == Lower(Strip(text))
        Denotes(k) == \/ t = Lower(MonthNames[k])
                      \/ t = SubSeq(Lower(MonthNames[k]), 1, 3)
                      \/ t = DecimalStr(k)
    IN  IF \E k \in 1..12 : Denotes(k) THEN CHOOSE k \in 1..12 : Denotes(k) ELSE 0

\* two month texts are equal once canonicalized: they denote the same month
\* or, denoting none, are the same text once stripped
SameMonth(a, b) ==
    IF MonthDenoted(a) # 0 \/ MonthDenoted(b) # 0
    THEN MonthDenoted(a) = MonthDenoted(b)
    ELSE Strip(a) = Strip(b)

\* similarity of the location of weatherFile[i] to the pending call's location
WeatherSimilarity(i) ==
    fuzz_ratio(normalize_location(call.location),
               normalize_location(weatherFile[i].location))

\* the records of the pending call's month whose location is similar enough
WeatherCandidates ==
    {i \in 1..Len(weatherFile) :
        /\ SameMonth(weatherFile[i].month, call.month)
        /\ RLe(RInt(SIMILARITY_THRESHOLD), WeatherSimilarity(i))}

\* the ways to write month k
MonthForms(k) ==
    {MonthNames[k], Lower(MonthNames[k]), Upper(MonthNames[k]),
     SubSeq(MonthNames[k], 1, 3), SubSeq(Upper(MonthNames[k]), 1, 3),
     DecimalStr(k)}

\* C12: the weather lookup answers with a record only if the record's month
\* and the query's month are equal once canonicalized and the record's
\* location is at least 70 similar to the query's; among these records the
\* most similar location wins, the first in the collection among equals; no
\* record of another month is answered however close its location; and the
\* month written as a number, a three-letter abbreviation or a full name in
\* any case gives the same answer.
C12_WeatherOfTheMonth ==
    Returned("get_weather") =>
        /\ IF WeatherCandidates = {} THEN result.type = "str"
           ELSE WeatherAnswerIs(
                    CHOOSE i \in WeatherCandidates :
                        \A j \in WeatherCandidates :
                            \/ RLt(WeatherSimilarity(j), WeatherSimilarity(i))
                            \/ (WeatherSimilarity(j) = WeatherSimilarity(i) /\ i <= j))
        /\ MonthDenoted(call.month) # 0 =>
              \A month \in MonthForms(MonthDenoted(call.month)) :
                  WeatherAnswerIs(find_weather_index(call.location, month, weatherFile))

\* "Rome" in month "7" was answered with the July record of "Rome", not with
\* the January record of "Rome" nor with the earlier July record of "Roma"
C12_Witness ==
    /\ Returned("get_weather")
    /\ weatherFile = WeatherEntries
    /\ call.location = L_Rome
    /\ call.month = S_7
    /\ result.type = "dict"
    /\ result.value.avg_temperature_c = 26

-----------------------------------------------------------------------------
(* The accommodation search, checked under Spec *)

\* the type the pending call's filter restricts the search to, "all" for no
\* restriction
CallFilter ==
    LET t == Strip(Lower(call.accommodation_type))
    IN  IF t \in {S_camp, S_camping} THEN S_camping
        ELSE IF t \in {S_hostels, S_hostel} THEN S_hostel
        ELSE IF t \in {S_hotels, S_hotel} THEN S_hotel
        ELSE S_all

\* the filter value of the pending call is none of the recognized ones
FilterUnrecognized ==
    Strip(Lower(call.accommodation_type))
        \notin {S_camp, S_camping, S_hostels, S_hostel, S_hotels, S_hotel, S_all}

\* similarity of the location of accommodationsFile[i] to the pending call's
AccommodationSimilarity(i) ==
    fuzz_ratio(normalize_location(call.location),
               normalize_location(accommodationsFile[i].location))

\* the candidates near enough whose type passes the filter
AccommodationCandidates ==
    {i \in 1..Len(accommodationsFile) :
        /\ RLe(RInt(SIMILARITY_THRESHOLD), AccommodationSimilarity(i))
        /\ (CallFilter = S_all \/ Lower(accommodationsFile[i].type) = CallFilter)}

\* C13: the accommodation search answers with exactly the candidates whose
\* location is at least 70 similar to the query and whose type passes the
\* filter, each once and no other; camp and camping restrict to camping,
\* hostels and hostel to hostel, hotels and hotel to hotel, and a filter
\* value that is not recognized answers as "all" does, without raising.
C13_ExactlyTheMatchingCandidates ==
    Returned("find_accommodation") =>
        /\ result.type \in {"str", "dict"}
        /\ Len(AnsweredNames) = Cardinality(AccommodationCandidates)
        /\ SeqToSet(AnsweredNames) =
              {accommodationsFile[i].name : i \in AccommodationCandidates}
        /\ FilterUnrecognized =>
              AnsweredNames =
                  NamesOf(find_accommodations(call.location, S_all, accommodationsFile))

\* the filter "mixed" was answered with all five places in and near "Rome"
C13_Witness ==
    /\ Returned("find_accommodation")
    /\ call.accommodation_type = S_mixed
    /\ call.location = L_Rome
    /\ result.type = "dict"
    /\ result.value.count = 5

\* the position in accommodationsFile of the k-th accommodation answered
AnsweredIndex(k) ==
    CHOOSE i \in 1..Len(accommodationsFile) :
        accommodationsFile[i].name = AnsweredNames[k]

\* C14: the answered list is sorted: of two consecutive accommodations the
\* earlier is at least as similar in location to the query as the later and,
\* when they are equally similar, costs no more per night.
C14_SortedBySimilarityThenPrice ==
    (Returned("find_accommodation") /\ result.type = "dict") =>
        \A k \in 1..(Len(AnsweredNames) - 1) :
            LET earlier == AccommodationSimilarity(AnsweredIndex(k))
                later == AccommodationSimilarity(AnsweredIndex(k + 1))
            IN  /\ RLe(later, earlier)
                /\ earlier = later =>
                      result.value.accommodations[k].price_per_night
                          <= result.value.accommodations[k + 1].price_per_night

\* the places in "Rome" came by price, not in the order of the collection,
\* and before the cheaper place in "Roma"
C14_Witness ==
    /\ Returned("find_accommodation")
    /\ call.location = L_Rome
    /\ call.accommodation_type = S_all
    /\ result.type = "dict"
    /\ AnsweredNames = <<"Camp Tevere", "Nord", "Ostello", "Grand", "Albergo">>

-----------------------------------------------------------------------------
(* The price of a stop, checked under SpecBudget *)

\* the type the accommodation search is restricted to for a preference,
\* "all" for no preference and for a preference that names no type
PreferenceFilter(preference) ==
    IF ~Truthy(preference) THEN S_all
    ELSE LET t == Strip(Lower(preference.val))
         IN  IF t \in {S_camp, S_camping} THEN S_camping
             ELSE IF t \in {S_hostels, S_hostel} THEN S_hostel
             ELSE IF t \in {S_hotels, S_hotel} THEN S_hotel
             ELSE S_all

\* the accommodations on record that match a stop's location and the
\* preference of the pending call
StopMatches(waypoint_name) ==
    {i \in 1..Len(accommodationsFile) :
        /\ RLe(RInt(SIMILARITY_THRESHOLD),
               fuzz_ratio(normalize_location(waypoint_name),
                          normalize_location(accommodationsFile[i].location)))
        /\ \/ PreferenceFilter(call.accommodation_preference) = S_all
           \/ Lower(accommodationsFile[i].type)
                 = PreferenceFilter(call.accommodation_preference)}

\* the fixed estimate per night: 15, 25 and 80 for the preference "camping",
\* "hostel" and "hotel" in any letter case, 25 for none and for any other
FixedEstimate(preference) ==
    IF ~Truthy(preference) THEN 25
    ELSE IF Lower(preference.val) = S_camping THEN 15
    ELSE IF Lower(preference.val) = S_hostel THEN 25
    ELSE IF Lower(preference.val) = S_hotel THEN 80
    ELSE 25

\* the pending budget call returned line items for the stops of its route
StopsPriced == BudgetReturnedDict /\ Len(CallRoute.waypoints) >= 2

PreferredMatches(waypoint_name) ==
    LET matches == StopMatches(waypoint_name)
        preference == call.accommodation_preference
        typed == IF Truthy(preference)
                 THEN {i \in matches :
                          Lower(accommodationsFile[i].type)
                              = Strip(Lower(preference.val))}
                 ELSE {}
    IN  IF typed # {} THEN typed ELSE matches

\* C20: the line item of a stop with at least one matching accommodation
\* carries the price per night and the currency of a matching accommodation
\* (of the preferred type when the preference names a type that is
\* available) and none of these has a lower listed price per night.
C20_CheapestMatch ==
    StopsPriced =>
        \A k \in 1..Len(Breakdown) :
            LET preferred == PreferredMatches(Breakdown[k].waypoint_name)
            IN  preferred # {} =>
                    /\ \E i \in preferred :
                          /\ Breakdown[k].price_per_night
                                = accommodationsFile[i].price_per_night
                          /\ Breakdown[k].currency = accommodationsFile[i].currency
                    /\ \A j \in preferred :
                          Breakdown[k].price_per_night
                              <= accommodationsFile[j].price_per_night

\* with the preference "Hotels " the stop in "Rome" took the hotel in "Roma"
\* at 60 GBP, cheaper than the more similar hotel in "Rome" at 90 USD
C20_Witness ==
    /\ StopsPriced
    /\ accommodationsFile = AccommodationsA
    /\ call.accommodation_preference = Some(S_Hotels_sp)
    /\ \E k \in 1..Len(Breakdown) :
          /\ Breakdown[k].waypoint_name = L_Rome
          /\ Breakdown[k].price_per_night = 60
          /\ Breakdown[k].currency = "GBP"

-----------------------------------------------------------------------------
(* The totals of a budget, checked under SpecBudget *)

\* C21: in every budget result total_eur is the sum of the accommodation,
\* food, visa and other-expenses amounts in EUR, food is the daily food rate
\* times estimated_days, other expenses are the maintenance rate per km times
\* the route's distance plus the daily miscellaneous rate times
\* estimated_days, and total_usd is total_eur times the USD rate.
C21_TotalsAddUp ==
    BudgetReturnedDict =>
        LET budget == result.value
            days == budget.estimated_days
        IN  /\ budget.total_eur
                  = RAdd(budget.accommodation.total_eur,
                         RAdd(budget.food.total_eur,
                              RAdd(budget.visa.cost_eur,
                                   budget.other_expenses.total_eur)))
            /\ budget.food.total_eur = RInt(DAILY_FOOD_COST * days)
            /\ budget.other_expenses.total_eur
                  = RAdd(RInt(MISCELLANEOUS_PER_DAY * days),
                         RMul(RInt(CallRoute.distance_km), BIKE_MAINTENANCE_PER_KM))
            /\ budget.total_usd = RMul(CURRENCY_RATES["USD"], budget.total_eur)

\* a trip of 2 days over 100 km with stops to pay for and a visa of 50 USD
C21_Witness ==
    /\ BudgetReturnedDict
    /\ result.value.estimated_days = 2
    /\ CallRoute.distance_km = 100
    /\ result.value.visa.cost_usd = RInt(50)
    /\ RLt(RInt(0), result.value.accommodation.total_eur)
    /\ result.value.other_expenses.total_eur = RInt(40)

\* the sum of a sequence of amounts
RECURSIVE SumAmounts(_)
SumAmounts(amounts) ==
    IF amounts = <<>> THEN RInt(0)
    ELSE RAdd(Head(amounts), SumAmounts(Tail(amounts)))

\* an amount of a line item in EUR: divided by the rate of its currency,
\* unchanged for EUR and for a currency without a rate
InEur(amount, currency) ==
    IF currency \in {"USD", "GBP", "DKK", "CZK"}
    THEN RDiv(amount, CURRENCY_RATES[currency])
    ELSE amount

\* the total_cost of the line items in one currency, in the items' order
CostsIn(currency) ==
    LET InCurrency(item) == item.currency = currency
        items == SelectSeq(Breakdown, InCurrency)
    IN  [k \in 1..Len(items) |-> items[k].total_cost]

\* C22: accommodation.total_eur is the sum over the line items of the item's
\* total_cost converted to EUR, and currency_details has exactly one entry
\* for each currency other than EUR that occurs in a line item, the sum of
\* the total_cost of the items in that currency, and no entry for EUR.
C22_AccommodationSubtotals ==
    BudgetReturnedDict =>
        LET accommodation == result.value.accommodation
        IN  /\ accommodation.total_eur
                  = SumAmounts([k \in 1..Len(Breakdown) |->
                                   InEur(Breakdown[k].total_cost,
                                         Breakdown[k].currency)])
            /\ DOMAIN accommodation.currency_details
                  = {Breakdown[k].currency : k \in 1..Len(Breakdown)} \ {"EUR"}
            /\ \A c \in DOMAIN accommodation.currency_details :
                  accommodation.currency_details[c] = SumAmounts(CostsIn(c))

\* two stops priced in GBP and one estimated in EUR: one entry, for GBP
C22_Witness ==
    /\ BudgetReturnedDict
    /\ \E k, m, n \in 1..Len(Breakdown) :
          /\ k < m
          /\ Breakdown[k].currency = "GBP"
          /\ Breakdown[m].currency = "GBP"
          /\ Breakdown[n].currency = "EUR"
          /\ RLt(RInt(0), Breakdown[n].total_cost)
    /\ DOMAIN result.value.accommodation.currency_details = {"GBP"}

-----------------------------------------------------------------------------
(* The visa cost of a budget, checked under SpecBudget *)

\* both destination and nationality of the pending call are given
BothSupplied == Truthy(call.destination) /\ Truthy(call.nationality)

\* the visa rule resolved for the pending call, None without one
RuleResolved ==
    IF BothSupplied
    THEN find_visa_requirements(call.destination.val, call.nationality.val, visaFile)
    ELSE None

\* the resolved rule carries a positive cost
RuleHasCost ==
    /\ RuleResolved # None
    /\ RuleResolved.val.cost_usd # None
    /\ RuleResolved.val.cost_usd.val > 0

\* C23: the visa cost is the resolved rule's cost in USD, and that cost
\* divided by the USD rate in EUR, when both destination and nationality are
\* given, a rule is resolved and its cost is positive; in every other case
\* the call with a resolved route and a duration still returns a breakdown,
\* with visa cost 0 in both currencies and with a note whenever one of the
\* two arguments was given.
C23_VisaCost ==
    /\ (Returned("estimate_budget") /\ Qualifying # {} /\ call.duration_days # None)
           => result.type = "dict"
    /\ BudgetReturnedDict =>
          LET visa == result.value.visa
          IN  IF RuleHasCost
              THEN /\ visa.cost_usd = RInt(RuleResolved.val.cost_usd.val)
                   /\ RMul(visa.cost_eur, CURRENCY_RATES["USD"]) = visa.cost_usd
              ELSE /\ visa.cost_usd = RInt(0)
                   /\ visa.cost_eur = RInt(0)
                   /\ (Truthy(call.destination) \/ Truthy(call.nationality))
                          => visa.info # ""

\* a visa of 50 USD, 500/11 EUR
C23_Witness ==
    /\ BudgetReturnedDict
    /\ RuleHasCost
    /\ result.value.visa.cost_usd = RInt(50)
    /\ result.value.visa.cost_eur = Rat(500, 11)

-----------------------------------------------------------------------------
(* Python floats as IEEE binary64 values, for the currency conversions.   *)
(* A natural number is written as its bits from the least significant     *)
(* one, without leading zeros (zero is <<>>).  A finite double that is    *)
(* not negative is [m |-> bits, e |-> k], the number m * 2^k with m odd   *)
(* (zero is m = <<>>, e = 0), so that equal numbers are equal records.    *)
(* Products and quotients are rounded to 53 significant bits, to the      *)
(* nearest double and to the even one of two nearest; overflow and        *)
(* subnormal numbers are out of the range modelled.                       *)

SIGNIFICAND_BITS == 53

RECURSIVE BitsOf(_)
BitsOf(n) == IF n = 0 THEN <<>> ELSE <<n % 2>> \o BitsOf(n \div 2)

RECURSIVE TrimBits(_)
TrimBits(b) ==
    IF b = <<>> \/ b[Len(b)] = 1 THEN b
    ELSE TrimBits(SubSeq(b, 1, Len(b) - 1))

BitAt(b, i) == IF i <= Len(b) THEN b[i] ELSE 0

\* The loops below carry their state in one record, the position i and what
\* has been computed up to it, and take four steps at a time; a step past
\* the end adds a leading zero or changes nothing.
AddStep(a, b, st) ==
    [i |-> st.i + 1,
     carry |-> (BitAt(a, st.i) + BitAt(b, st.i) + st.carry) \div 2,
     acc |-> Append(st.acc, (BitAt(a, st.i) + BitAt(b, st.i) + st.carry) % 2)]

RECURSIVE AddLoop(_, _, _)
AddLoop(a, b, st) ==
    IF st.i > Len(a) /\ st.i > Len(b)
    THEN TrimBits(Append(st.acc, st.carry))
    ELSE AddLoop(a, b, AddStep(a, b, AddStep(a, b, AddStep(a, b, AddStep(a, b, st)))))

AddBits(a, b) == AddLoop(a, b, [i |-> 1, carry |-> 0, acc |-> <<>>])

SubStep(a, b, st) ==
    [i |-> st.i + 1,
     borrow |-> IF BitAt(a, st.i) - BitAt(b, st.i) - st.borrow < 0 THEN 1 ELSE 0,
     acc |-> Append(st.acc, (BitAt(a, st.i) - BitAt(b, st.i) - st.borrow + 2) % 2)]

RECURSIVE SubLoop(_, _, _)
SubLoop(a, b, st) ==
    IF st.i > Len(a) THEN TrimBits(st.acc)
    ELSE SubLoop(a, b, SubStep(a, b, SubStep(a, b, SubStep(a, b, SubStep(a, b, st)))))

\* a - b for a >= b
SubBits(a, b) == SubLoop(a, b, [i |-> 1, borrow |-> 0, acc |-> <<>>])

\* a < b
LessBits(a, b) ==
    IF Len(a) # Len(b) THEN Len(a) < Len(b)
    ELSE \E i \in 1..Len(a) :
             /\ a[i] < b[i]
             /\ \A j \in (i + 1)..Len(a) : a[j] = b[j]

\* a * 2^k
ShiftLeft(a, k) == IF a = <<>> THEN <<>> ELSE [i \in 1..k |-> 0] \o a

MulStep(a, b, st) ==
    [i |-> st.i + 1,
     acc |-> IF BitAt(b, st.i) = 1
             THEN AddBits(st.acc, ShiftLeft(a, st.i - 1))
             ELSE st.acc]

RECURSIVE MulLoop(_, _, _)
MulLoop(a, b, st) ==
    IF st.i > Len(b) THEN st.acc
    ELSE MulLoop(a, b, MulStep(a, b, MulStep(a, b, MulStep(a, b, MulStep(a, b, st)))))

MulBits(a, b) == MulLoop(a, b, [i |-> 1, acc |-> <<>>])

\* the remainder r, with a bit of the dividend brought down, against d
Divided(i, q, r, d) ==
    IF LessBits(r, d)
    THEN [i |-> i - 1, q |-> <<0>> \o q, r |-> r]
    ELSE [i |-> i - 1, q |-> <<1>> \o q, r |-> SubBits(r, d)]

\* one step of the long division, from the most significant bit down
DivStep(n, d, st) ==
    IF st.i = 0 THEN st
    ELSE Divided(st.i, st.q, TrimBits(<<n[st.i]>> \o st.r), d)

RECURSIVE DivLoop(_, _, _)
DivLoop(n, d, st) ==
    IF st.i = 0 THEN [q |-> TrimBits(st.q), r |-> st.r]
    ELSE DivLoop(n, d, DivStep(n, d, DivStep(n, d, DivStep(n, d, DivStep(n, d, st)))))

\* quotient and remainder of n by d # 0
DivMod(n, d) == DivLoop(n, d, [i |-> Len(n), q |-> <<>>, r |-> <<>>])

\* the double m * 2^e for any natural m
Double(m, e) ==
    IF m = <<>> THEN [m |-> <<>>, e |-> 0]
    ELSE LET low == CHOOSE i \in 1..Len(m) :
                        m[i] = 1 /\ \A j \in 1..(i - 1) : m[j] = 0
         IN  [m |-> SubSeq(m, low, Len(m)), e |-> e + low - 1]

\* whether the bits of q below the lowest kept one, with the inexact rest
\* of a division, round the kept bits up: above half, or half and the kept
\* bits odd
RoundsUp(q, dropped, inexact) ==
    /\ q[dropped] = 1
    /\ \/ inexact
       \/ \E i \in 1..(dropped - 1) : q[i] = 1
       \/ q[dropped + 1] = 1

\* q * 2^e (a little more when inexact) rounded to SIGNIFICAND_BITS bits
Rounded(q, e, inexact) ==
    IF Len(q) <= SIGNIFICAND_BITS THEN Double(q, e)
    ELSE IF RoundsUp(q, Len(q) - SIGNIFICAND_BITS, inexact)
    THEN Double(AddBits(SubSeq(q, Len(q) - SIGNIFICAND_BITS + 1, Len(q)), <<1>>),
                e + Len(q) - SIGNIFICAND_BITS)
    ELSE Double(SubSeq(q, Len(q) - SIGNIFICAND_BITS + 1, Len(q)),
                e + Len(q) - SIGNIFICAND_BITS)

\* a * b of two floats
float_mul(a, b) == Rounded(MulBits(a.m, b.m), a.e + b.e, FALSE)

\* the quotient of n * 2^scale by d as a double times 2^e
quotient_rounded(qr, e) == Rounded(qr.q, e, qr.r # <<>>)

\* a / b of two floats, b # 0: the dividend is scaled so that the quotient
\* has more than SIGNIFICAND_BITS + 1 bits
float_div_scaled(a, b, scale) ==
    quotient_rounded(DivMod(ShiftLeft(a.m, scale), b.m), a.e - b.e - scale)

float_div(a, b) ==
    IF a.m = <<>> THEN a
    ELSE float_div_scaled(a, b, Max(0, SIGNIFICAND_BITS + 2 + Len(b.m) - Len(a.m)))

\* float(n) of a natural n below 2^31
float_of_int(n) == Double(BitsOf(n), 0)

\* the double of a decimal literal equal to n / d
float_of_ratio(n, d) == float_div(float_of_int(n), float_of_int(d))


\* CURRENCY_RATES as the floats its decimal literals denote
CURRENCY_RATES_float ==
    [c \in DOMAIN CURRENCY_RATES |->
        float_of_ratio(CURRENCY_RATES[c].n, CURRENCY_RATES[c].d)]

\* convert_to_eur with the quotient taken as the product
convert_to_eur_multiplying(amount, currency) ==
    IF currency = "EUR" THEN amount
    ELSE IF currency \in DOMAIN CURRENCY_RATES
    THEN float_mul(amount, CURRENCY_RATES_float[currency])
    ELSE amount

\* convert_to_eur on floats
convert_to_eur_float(amount, currency) ==
    IF currency = "EUR" THEN amount
    ELSE IF currency \in DOMAIN CURRENCY_RATES
    THEN float_div(amount, CURRENCY_RATES_float[currency])
    ELSE amount

\* convert_eur_to_usd on floats
convert_eur_to_usd_float(amount_eur) ==
    float_mul(amount_eur, CURRENCY_RATES_float["USD"])

-----------------------------------------------------------------------------
(* The currency conversions on their own, on amounts in steps of one half *)

MaxAmount == 16

\* amounts up to MaxAmount in steps of one half, and 100
Amounts ==
    {Double(BitsOf(k), -1) : k \in 0..(2 * MaxAmount)} \cup {float_of_int(100)}

\* the currencies with a rate, one without, and the empty code
CurrencyCodes == {"EUR", "USD", "GBP", "DKK", "CZK", "SEK", ""}

FloatResult(x) == [type |-> "float", value |-> x]

ConvertToEur ==
    /\ pc = "idle"
    /\ \E amount \in Amounts, currency \in CurrencyCodes :
          /\ call' = [op |-> "convert_to_eur", amount |-> amount,
                      currency |-> currency]
          /\ result' = FloatResult(convert_to_eur_float(amount, currency))
    /\ pc' = "returned"
    /\ UNCHANGED files

ConvertEurToUsd ==
    /\ pc = "idle"
    /\ \E amount_eur \in Amounts :
          /\ call' = [op |-> "convert_eur_to_usd", amount_eur |-> amount_eur]
          /\ result' = FloatResult(convert_eur_to_usd_float(amount_eur))
    /\ pc' = "returned"
    /\ UNCHANGED files

\* convert_to_eur(convert_eur_to_usd(x), "USD")
ConvertToUsdAndBack ==
    /\ pc = "idle"
    /\ \E x \in Amounts :
          /\ call' = [op |-> "convert_to_usd_and_back", amount_eur |-> x]
          /\ result' = FloatResult(
                           convert_to_eur_float(convert_eur_to_usd_float(x), "USD"))
    /\ pc' = "returned"
    /\ UNCHANGED files

NextCurrency == ConvertToEur \/ ConvertEurToUsd \/ ConvertToUsdAndBack \/ Return

SpecCurrency == InitSchedule /\ [][NextCurrency]_vars

\* the bits of the float x counted in units of 2^e, e no more than x.e
InUnits(x, e) == ShiftLeft(x.m, x.e - e)

\* |a - b| of two naturals
Distance(a, b) == IF LessBits(a, b) THEN SubBits(b, a) ELSE SubBits(a, b)

\* |z - x| <= x / 2^51: z is x up to the rounding of two operations
WithinRounding(z, x) ==
    LET e == IF z.e < x.e THEN z.e ELSE x.e
    IN  ~LessBits(InUnits(x, e),
                  ShiftLeft(Distance(InUnits(z, e), InUnits(x, e)), 51))

\* convert_to_eur returned the amount unchanged for EUR and for a code
\* without a rate, and the amount divided by the rate for the other four
ConvertsByTheRate ==
    Returned("convert_to_eur") =>
        IF call.currency \in {"USD", "GBP", "DKK", "CZK"}
        THEN result.value = float_div(call.amount, CURRENCY_RATES_float[call.currency])
        ELSE result.value = call.amount

\* C24 as stated: convert_to_eur returns the amount unchanged for EUR and
\* for a code without a rate and the amount divided by the rate for USD, GBP,
\* DKK and CZK, and converting an amount to USD and back returns the amount.
C24_ThereAndBackIsExact ==
    /\ ConvertsByTheRate
    /\ Returned("convert_to_usd_and_back") => result.value = call.amount_eur

\* C24 amended: the same of convert_to_eur, and converting an amount to USD
\* and back returns the amount up to the rounding of the product and of the
\* quotient, within one part in 2^51 of the amount.
C24_ThereAndBackWithinRounding ==
    /\ ConvertsByTheRate
    /\ Returned("convert_to_usd_and_back") =>
           WithinRounding(result.value, call.amount_eur)

\* 15 converted to USD and back is 15 - 2^-49, not 15
C24_Witness ==
    /\ Returned("convert_to_usd_and_back")
    /\ call.amount_eur = float_of_int(15)
    /\ result.value # call.amount_eur
    /\ WithinRounding(result.value, call.amount_eur)

-----------------------------------------------------------------------------
(* Invocations of the finders that overlap.  Under SpecParallel pc, call and *)
(* result hold one entry for each worker; call[w] is the frame of worker w's *)
(* invocation with its local variables, and a step of a worker is one pass   *)
(* of the finder's loop over the collection every worker was handed; the     *)
(* frame keeps the list as it was when the invocation began.                 *)

MaxWorkers == 2

Workers == 1..MaxWorkers

ParallelRoutes ==
    { << Route(L_Rome, L_Oslo, 100, <<>>), Route(L_Roma, L_Oslo, 200, <<>>) >>,
      << Route(L_Roma, L_Osla, 200, <<>>), Route(L_Rome, L_Oslo, 100, <<>>) >> }

ParallelRouteQueries == {<<L_Rome, L_Oslo>>, <<L_Roma, L_Osla>>, <<L_Bern, L_Oslo>>}

ParallelAccommodationQueries == {<<L_Rome, S_all>>, <<L_Roma, S_all>>, <<L_Rome, S_hotels>>}

similarities_left_over(w) ==
    LET others == {v \in Workers \ {w} : call[v].op = "find_accommodations"}
    IN  IF others = {} THEN <<>>
        ELSE call[CHOOSE v \in others : TRUE].location_similarities

\* location_similarities: dict = {}, a dictionary of the invocation's own
similarities_at_start(w) == <<>>

\* location_similarities after the loop's pass that appended a record
similarities_after(location_similarities, location_key, location_similarity) ==
    IF \/ location_key \notin DOMAIN location_similarities
       \/ RLt(location_similarities[location_key], location_similarity)
    THEN [k \in DOMAIN location_similarities \cup {location_key} |->
             IF k = location_key THEN location_similarity
             ELSE location_similarities[k]]
    ELSE location_similarities

\* location_similarities.get(location_key, 0)
similarity_get(location_similarities, location_key) ==
    IF location_key \in DOMAIN location_similarities
    THEN location_similarities[location_key]
    ELSE RInt(0)

\* each match with the key the sort reads from the dictionary
keyed_by(matching_accommodations, location_similarities) ==
    [i \in 1..Len(matching_accommodations) |->
        [accommodation |-> matching_accommodations[i],
         similarity |->
             similarity_get(location_similarities,
                            normalize_location(matching_accommodations[i].location)),
         price |-> matching_accommodations[i].price_per_night]]

\* the frame after one pass of the loop of find_accommodations
accommodation_step(frame, accommodation) ==
    LET normalized_location == normalize_location(frame.location)
        filter_type == filter_type_of(Strip(Lower(frame.accommodation_type)))
        accommodation_location == normalize_location(accommodation.location)
    IN  IF accommodation_matches(accommodation, normalized_location, filter_type)
        THEN [frame EXCEPT
                 !.i = @ + 1,
                 !.matching_accommodations = Append(@, accommodation),
                 !.location_similarities =
                     similarities_after(@, accommodation_location,
                                        fuzz_ratio(normalized_location,
                                                   accommodation_location))]
        ELSE [frame EXCEPT !.i = @ + 1]

StartFindRoute(w) ==
    /\ pc[w] = "idle"
    /\ \E q \in ParallelRouteQueries :
          call' = [call EXCEPT ![w] =
                      [op |-> "find_route_fuzzy", start_point |-> q[1],
                       end_point |-> q[2], routes |-> routesFile, i |-> 1,
                       best |-> [index |-> 0, score |-> RInt(0)]]]
    /\ pc' = [pc EXCEPT ![w] = "running"]
    /\ UNCHANGED <<result, files>>

ScanRoute(w) ==
    /\ pc[w] = "running"
    /\ call[w].op = "find_route_fuzzy"
    /\ call[w].i <= Len(routesFile)
    /\ call' = [call EXCEPT ![w] =
                   [@ EXCEPT !.i = @ + 1,
                             !.best = route_step(normalize_location(call[w].start_point),
                                                 normalize_location(call[w].end_point),
                                                 routesFile[call[w].i], call[w].i, @)]]
    /\ UNCHANGED <<pc, result, files>>

FinishFindRoute(w) ==
    /\ pc[w] = "running"
    /\ call[w].op = "find_route_fuzzy"
    /\ call[w].i > Len(routesFile)
    /\ result' = [result EXCEPT ![w] =
                     [type |-> "route", index |-> call[w].best.index,
                      value |-> entry_at(routesFile, call[w].best.index)]]
    /\ pc' = [pc EXCEPT ![w] = "returned"]
    /\ UNCHANGED <<call, files>>

StartFindAccommodations(w) ==
    /\ pc[w] = "idle"
    /\ \E q \in ParallelAccommodationQueries :
          call' = [call EXCEPT ![w] =
                      [op |-> "find_accommodations", location |-> q[1],
                       accommodation_type |-> q[2],
                       accommodations |-> accommodationsFile, i |-> 1,
                       matching_accommodations |-> <<>>,
                       location_similarities |-> similarities_at_start(w)]]
    /\ pc' = [pc EXCEPT ![w] = "running"]
    /\ UNCHANGED <<result, files>>

ScanAccommodation(w) ==
    /\ pc[w] = "running"
    /\ call[w].op = "find_accommodations"
    /\ call[w].i <= Len(accommodationsFile)
    /\ call' = [call EXCEPT ![w] =
                   accommodation_step(@, accommodationsFile[call[w].i])]
    /\ UNCHANGED <<pc, result, files>>

\* the sort orders the invocation's own list of matches, which it returns
SortAccommodations(w) ==
    /\ pc[w] = "running"
    /\ call[w].op = "find_accommodations"
    /\ call[w].i > Len(accommodationsFile)
    /\ result' = [result EXCEPT ![w] =
                     [type |-> "list",
                      value |-> unkeyed(sort_keyed(
                                    keyed_by(call[w].matching_accommodations,
                                             call[w].location_similarities),
                                    1, <<>>))]]
    /\ pc' = [pc EXCEPT ![w] = "returned"]
    /\ UNCHANGED <<call, files>>

\* the caller takes the value; the frame of the invocation is gone
ReturnWorker(w) ==
    /\ pc[w] = "returned"
    /\ pc' = [pc EXCEPT ![w] = "idle"]
    /\ call' = [call EXCEPT ![w] = NoCall]
    /\ result' = [result EXCEPT ![w] = NoResult]
    /\ UNCHANGED files

InitParallel ==
    /\ routesFile \in ParallelRoutes
    /\ accommodationsFile = AccommodationsA
    /\ visaFile = <<>>
    /\ weatherFile = <<>>
    /\ elevationsFile = <<>>
    /\ pc = [w \in Workers |-> "idle"]
    /\ call = [w \in Workers |-> NoCall]
    /\ result = [w \in Workers |-> NoResult]

NextParallel ==
    \E w \in Workers :
        \/ StartFindRoute(w)
        \/ ScanRoute(w)
        \/ FinishFindRoute(w)
        \/ StartFindAccommodations(w)
        \/ ScanAccommodation(w)
        \/ SortAccommodations(w)
        \/ ReturnWorker(w)

SpecParallel == InitParallel /\ [][NextParallel]_vars

\* what worker w's invocation returns when it runs alone with its inputs
ResultAlone(w) ==
    IF call[w].op = "find_route_fuzzy"
    THEN [type |-> "route",
          index |-> find_route_fuzzy_index(call[w].start_point, call[w].end_point,
                                           call[w].routes),
          value |-> find_route_fuzzy(call[w].start_point, call[w].end_point,
                                     call[w].routes)]
    ELSE [type |-> "list",
          value |-> find_accommodations(call[w].location, call[w].accommodation_type,
                                        call[w].accommodations)]

\* the list worker w's invocation was handed is as it was handed over
ListAsPassed(w) ==
    IF call[w].op = "find_route_fuzzy"
    THEN routesFile = call[w].routes
    ELSE accommodationsFile = call[w].accommodations

\* C25: however the passes of overlapping invocations of find_route_fuzzy and
\* find_accommodations are interleaved, the list an invocation was handed
\* stays as it was handed over while other invocations run, and every
\* invocation returns what it returns when it runs alone with the same inputs.
C25_StatelessAndOrderIndependent ==
    \A w \in Workers :
        /\ pc[w] # "idle" => ListAsPassed(w)
        /\ pc[w] = "returned" => result[w] = ResultAlone(w)

\* an invocation returned a sorted list of matches while another one, begun
\* with other inputs, was in the middle of its loop over the same collection
C25_Witness ==
    /\ pc[1] = "returned"
    /\ call[1].op = "find_accommodations"
    /\ Len(result[1].value) > 1
    /\ pc[2] = "running"
    /\ call[2].op = "find_accommodations"
    /\ call[2].location # call[1].location
    /\ call[2].i > 1
    /\ call[2].i <= Len(accommodationsFile)

-----------------------------------------------------------------------------
(* Failures inside a tool.  Under SpecFailure the routes file holds one      *)
(* record from "Rome" to "Oslo" whose distance_km is null or a number; the  *)
(* arithmetic on a null distance raises TypeError inside the tool's try.     *)

FailureNameLists ==
    {<<>>, <<L_Rome>>, <<L_Rome, L_Bern>>, <<L_Bern, L_Rome, L_Bern>>,
     <<L_Rome, L_Copenhagen>>}

\* a record of the routes file with "distance_km": null
RouteWithoutDistance(start_point, end_point, waypoints) ==
    [start_point |-> start_point, end_point |-> end_point, waypoints |-> waypoints]

FailureRoutes ==
    {RouteWithoutDistance(L_Rome, L_Oslo, WaypointsOf(names)) : names \in FailureNameLists}
        \cup {Route(L_Rome, L_Oslo, 100, WaypointsOf(names)) : names \in FailureNameLists}

InitFailure ==
    /\ routesFile \in {<<r>> : r \in FailureRoutes}
    /\ accommodationsFile = AccommodationsA
    /\ visaFile = VisaRules
    /\ weatherFile = <<>>
    /\ elevationsFile \in {ElevationEntries, <<ElevationEntry(L_Rome, 20)>>}
    /\ pc = "idle"
    /\ call = NoCall
    /\ result = NoResult

NextFailure == EstimateBudget \/ GetRouteElevationProfile \/ Return

SpecFailure == InitFailure /\ [][NextFailure]_vars

\* the record the call's endpoints resolve to has a null distance
ResolvesToNullDistance(start_point, end_point) ==
    /\ find_route_fuzzy(start_point, end_point, routesFile) # None
    /\ is_null(find_route_fuzzy(start_point, end_point, routesFile).val, "distance_km")

\* estimate_budget gets as far as the arithmetic on the distance
BudgetComputationFails ==
    /\ Returned("estimate_budget")
    /\ ResolvesToNullDistance(call.start_point, call.end_point)
    /\ \/ call.duration_days # None
       \/ (call.daily_average_km # None /\ call.daily_average_km.val > 0)

\* the names of the waypoints of the route the profile call resolves to
ProfileNamesOfCall ==
    LET waypoints ==
            find_route_fuzzy(call.start_point.val, call.end_point.val, routesFile).val.waypoints
    IN  [i \in 1..Len(waypoints) |-> waypoints[i].name]

\* get_elevation_profile gets as far as the gradient: every waypoint, and at
\* least two of them, has an elevation
ProfileComputationFails ==
    /\ Returned("get_elevation_profile")
    /\ ResolvesToNullDistance(call.start_point.val, call.end_point.val)
    /\ Len(ProfileNamesOfCall) >= 2
    /\ \A i \in 1..Len(ProfileNamesOfCall) : find_elevation(ProfileNamesOfCall[i]) # None

\* C26: when the computation of estimate_budget or get_elevation_profile fails
\* on a malformed record (arithmetic on a null distance_km), the tool raises
\* the exception to its caller, and it returns neither a success payload nor
\* a diagnostic string; a tool whose computation does not fail raises nothing.
C26_FailurePropagates ==
    pc = "returned" =>
        IF BudgetComputationFails \/ ProfileComputationFails
        THEN result = [type |-> "raise", value |-> "TypeError"]
        ELSE result.type \in {"str", "dict"}

\* estimate_budget raised at the division of the null distance by the average
C26_Witness ==
    /\ BudgetComputationFails
    /\ call.duration_days = None
    /\ result.type = "raise"

-----------------------------------------------------------------------------
(* The distribution of the nights over the stops, checked under SpecBudget *)

\* C27: for a resolved route with num_stops = number of waypoints - 1 >= 1,
\* all stops named: when the trip has at least num_stops days every stop's
\* line item has at least 1 night and the final stop has at least as many
\* nights as each earlier stop; and the final stop's nights are zero or
\* negative exactly when the trip has fewer days than stops.
C27_NightsOfTheStops ==
    BudgetReturnedDict =>
        LET waypoints == CallRoute.waypoints
            num_stops == Len(waypoints) - 1
            days == result.value.estimated_days
            final == Breakdown[num_stops].nights
        IN  (num_stops >= 1 /\ StopsAreNamed(waypoints)) =>
               /\ Len(Breakdown) = num_stops
               /\ days >= num_stops =>
                     \A i \in 1..num_stops :
                         /\ Breakdown[i].nights >= 1
                         /\ final >= Breakdown[i].nights
               /\ final <= 0 <=> days < num_stops

\* four days over three stops: one night each and the remainder at the last
C27_Witness ==
    /\ BudgetReturnedDict
    /\ call.duration_days = Some(4)
    /\ StopsAreNamed(CallRoute.waypoints)
    /\ Len(CallRoute.waypoints) = 4
    /\ Breakdown[1].nights = 1
    /\ Breakdown[2].nights = 1
    /\ Breakdown[3].nights = 2

-----------------------------------------------------------------------------
(* Invocations repeated after a dataset file was rewritten.  Under          *)
(* SpecReload the caller may keep a returned value together with the inputs  *)
(* of the invocation (call.earlier), the files may be rewritten while no     *)
(* invocation is under way, and the invocation may be made again.            *)

\* the caller keeps the value and the inputs to make the invocation again
KeepResult ==
    /\ pc = "returned"
    /\ pc' = "idle"
    /\ call' = [x \in DOMAIN call \cup {"earlier"} |->
                   IF x = "earlier" THEN result ELSE call[x]]
    /\ result' = NoResult
    /\ UNCHANGED files

\* mock_routes.json, mock_accommodations.json or mock_weather.json is replaced
\* between two invocations
RewriteFile ==
    /\ pc = "idle"
    /\ \/ /\ routesFile' \in RouteFiles \ {routesFile}
          /\ UNCHANGED <<accommodationsFile, weatherFile>>
       \/ /\ accommodationsFile' \in {AccommodationsA, AccommodationsC, <<>>} \ {accommodationsFile}
          /\ UNCHANGED <<routesFile, weatherFile>>
       \/ /\ weatherFile' \in WeatherFiles \ {weatherFile}
          /\ UNCHANGED <<routesFile, accommodationsFile>>
    /\ UNCHANGED <<visaFile, elevationsFile, pc, call, result>>

\* the tool of the kept invocation called again with the same inputs
InvokeAgain ==
    /\ pc = "idle"
    /\ call # NoCall
    /\ result' =
          IF call.op = "get_route"
          THEN get_route(call.start_point, call.end_point, call.daily_average_km)
          ELSE IF call.op = "find_accommodation"
          THEN find_accommodation(call.location, call.accommodation_type)
          ELSE get_weather(call.location, call.month)
    /\ pc' = "returned"
    /\ UNCHANGED <<call, files>>

InitReload ==
    /\ routesFile \in RouteFiles
    /\ accommodationsFile \in {AccommodationsA, AccommodationsC, <<>>}
    /\ visaFile = <<>>
    /\ weatherFile \in WeatherFiles
    /\ elevationsFile = <<>>
    /\ pc = "idle"
    /\ call = NoCall
    /\ result = NoResult

NextReload ==
    \/ GetRouteTool
    \/ FindAccommodation
    \/ GetWeather
    \/ KeepResult
    \/ RewriteFile
    \/ InvokeAgain
    \/ Return

SpecReload == InitReload /\ [][NextReload]_vars

\* the invocation was made before, with the same inputs
MadeAgain == pc = "returned" /\ "earlier" \in DOMAIN call

-----------------------------------------------------------------------------
(* The totals of a route profile, checked under SpecElevation *)

-----------------------------------------------------------------------------
(* Spellings of one accommodation type, checked under SpecBudget *)

PreferenceSpellings ==
    {S_camping, S_camp, S_hostel, S_hostels, S_Hostel, S_hotel, S_hotels, S_HOTEL,
     S_Hotels_sp}

\* the type find_accommodations filters by for a preference
FinderType(preference) == filter_type_of(Strip(Lower(preference)))

\* the spellings the finder takes for the type of the pending call's preference
SpellingsOfCallType ==
    IF call.accommodation_preference = None
       \/ FinderType(call.accommodation_preference.val) = S_all
    THEN {}
    ELSE {v \in PreferenceSpellings :
             FinderType(v) = FinderType(call.accommodation_preference.val)}

\* C30: a budget returned for a preference of the type camping, hostel or
\* hotel has the same accommodation breakdown as the budget of the same call
\* made with any other spelling of the type that the finder accepts (camp,
\* hostels, hotels, another letter case, surrounding whitespace), also at the
\* stops where no accommodation matches and the estimate is used.
C30_SpellingsGiveTheSameBreakdown ==
    BudgetReturnedDict =>
        \A v \in SpellingsOfCallType :
            estimate_budget(call.start_point, call.end_point, call.duration_days,
                            call.daily_average_km, Some(v), call.destination,
                            call.nationality).value.accommodation.breakdown
                = Breakdown

=============================================================================
